---- MODULE Spec2Model ----
(***************************************************************************)
(* Model of the contract-analysis backend of smart-contract-analyzer-dapp: *)
(* backend/services/analyzer.js (class ContractAnalyzer and the exported   *)
(* analyzeContract) and the /api/analyze route of the server.              *)
(*                                                                         *)
(* JavaScript strings are TLA+ strings (sequences of characters: Len,      *)
(* SubSeq and \o act on them), so includes, toLowerCase, trim and split    *)
(* are computed character by character as the engine computes them.        *)
(* Loosely typed values (fields read out of JSON.parse output, which may   *)
(* be absent or of another type) are tagged records.                       *)
(***************************************************************************)
EXTENDS Integers, Sequences, FiniteSets, TLC

(***************************************************************************)
(* JavaScript values                                                       *)
(***************************************************************************)
JUndef == [t |-> "undefined"]
JNull == [t |-> "null"]
JStr(s) == [t |-> "string", s |-> s]
JNum(n) == [t |-> "number", n |-> n]
JArr(items) == [t |-> "array", items |-> items]
JObj(fields) == [t |-> "object", fields |-> fields]
\* An object whose key order matters to the code (Object.keys).
JObjKeys(keys, fields) == [t |-> "object", fields |-> fields, keys |-> keys]

\* ToBoolean: undefined, null, '' and 0 are falsy; objects and arrays are truthy.
Truthy(v) ==
  CASE v.t = "undefined" -> FALSE
    [] v.t = "null" -> FALSE
    [] v.t = "string" -> v.s # ""
    [] v.t = "number" -> v.n # 0
    [] OTHER -> TRUE

\* a || b
OrElse(a, b) == IF Truthy(a) THEN a ELSE b

\* Reading a property of undefined or null raises a TypeError.
Nullish(v) == v.t \in {"undefined", "null"}

\* v[k] for a value that is not nullish.
Get(v, k) ==
  CASE v.t = "object" -> IF k \in DOMAIN v.fields THEN v.fields[k] ELSE JUndef
    [] v.t = "array" -> IF k = "length" THEN JNum(Len(v.items)) ELSE JUndef
    [] v.t = "string" -> IF k = "length" THEN JNum(Len(v.s)) ELSE JUndef
    [] OTHER -> JUndef

\* The outcome of a call: a returned value, or a thrown TypeError.
Return(v) == [threw |-> FALSE, value |-> v]
TypeError == [threw |-> TRUE]

(***************************************************************************)
(* String.prototype methods                                                *)
(***************************************************************************)
UpperCaseLetters == "ABCDEFGHIJKLMNOPQRSTUVWXYZ"
LowerCaseLetters == "abcdefghijklmnopqrstuvwxyz"

CharAt(s, i) == SubSeq(s, i, i)

\* The lower-case letter of each upper-case letter.
LowerCaseOf ==
  [c \in {CharAt(UpperCaseLetters, i) : i \in 1..Len(UpperCaseLetters)} |->
     CharAt(LowerCaseLetters,
            CHOOSE i \in 1..Len(UpperCaseLetters) : CharAt(UpperCaseLetters, i) = c)]

LowerChar(c) == IF c \in DOMAIN LowerCaseOf THEN LowerCaseOf[c] ELSE c

\* The lowered characters joined again; the text is halved at each step only to
\* keep the evaluation shallow.
RECURSIVE toLowerCase(_)
toLowerCase(s) ==
  IF Len(s) <= 1 THEN LowerChar(s)
  ELSE toLowerCase(SubSeq(s, 1, Len(s) \div 2))
       \o toLowerCase(SubSeq(s, Len(s) \div 2 + 1, Len(s)))

includes(s, sub) ==
  \E i \in 1..(Len(s) - Len(sub) + 1) : SubSeq(s, i, i + Len(sub) - 1) = sub

endsWith(s, suffix) ==
  Len(s) >= Len(suffix) /\ SubSeq(s, Len(s) - Len(suffix) + 1, Len(s)) = suffix

WhiteSpace == {" ", "\t", "\n", "\r", "\f"}

Least(S) == CHOOSE x \in S : \A y \in S : x <= y

\* s.trim(): from the first to the last character that is no white space.
trim(s) ==
  LET inked == {q \in 1..Len(s) : CharAt(s, q) \notin WhiteSpace}
  IN IF inked = {} THEN ""
     ELSE SubSeq(s, Least(inked), CHOOSE q \in inked : \A r \in inked : r <= q)

\* The least position in lo..hi whose character is in chars (or, with inside FALSE,
\* is not in chars); the position after hi when there is none.
FirstChar(s, lo, hi, chars, inside) ==
  LET hits == {q \in lo..hi : (CharAt(s, q) \in chars) = inside}
  IN IF hits # {} THEN Least(hits) ELSE IF lo > hi THEN lo ELSE hi + 1

\* The sequences seqs[lo], ..., seqs[hi] joined; halved at each step only to keep
\* the evaluation shallow.
RECURSIVE Flat(_, _, _)
Flat(seqs, lo, hi) ==
  IF lo > hi THEN <<>>
  ELSE IF lo = hi THEN seqs[lo]
  ELSE Flat(seqs, lo, (lo + hi) \div 2) \o Flat(seqs, (lo + hi) \div 2 + 1, hi)

\* seq.flatMap(f)
FlatMap(seq, F(_)) == Flat([i \in 1..Len(seq) |-> F(seq[i])], 1, Len(seq))

\* The k-th least element of the set S of numbers.
Kth(S, k) == CHOOSE q \in S : Cardinality({r \in S : r <= q}) = k

\* The pieces of s between the positions seps, a position before and one after s.
Pieces(s, seps) ==
  [k \in 1..(Cardinality(seps) - 1) |-> SubSeq(s, Kth(seps, k) + 1, Kth(seps, k + 1) - 1)]

\* s.split(separator) for a one-character separator: the pieces between its
\* occurrences; '' splits into the one piece ''.
split(s, separator) ==
  Pieces(s, {0, Len(s) + 1} \cup {q \in 1..Len(s) : CharAt(s, q) = separator})

\* s.repeat(n)
RECURSIVE Repeat(_, _)
Repeat(s, n) ==
  IF n = 0 THEN ""
  ELSE IF n = 1 THEN s
  ELSE Repeat(s, n \div 2) \o Repeat(s, n - n \div 2)

(***************************************************************************)
(* computeRiskScore (analyzer.js 258-288)                                  *)
(***************************************************************************)
\* Points that a low finding takes off.
SecurityPenalty(severity) ==
  IF severity = "high" THEN 25 ELSE IF severity = "low" THEN -5 ELSE 0

\* switch (severity) of the security loop
SecurityPoints(severity) ==
  CASE severity = "high" -> 25
    [] severity = "medium" -> 15
    [] severity = "low" -> 5
    [] severity = "informational" -> 1
    [] OTHER -> 0

\* if (severity === 'error') ... else if (severity === 'warning') ...
StylePoints(severity) ==
  CASE severity = "error" -> 3
    [] severity = "warning" -> 1
    [] OTHER -> 0

\* (x.severity || '').toLowerCase(): a truthy value that is no string has no
\* toLowerCase method, and the call raises a TypeError.
LoweredSeverity(diag) ==
  LET v == OrElse(diag.severity, JStr(""))
  IN IF v.t = "string" THEN Return(toLowerCase(v.s)) ELSE TypeError

RECURSIVE ScoreSecurity(_, _, _)
ScoreSecurity(slitherResults, i, score) ==
  IF i > Len(slitherResults) THEN Return(score)
  ELSE LET severity == LoweredSeverity(slitherResults[i])
       IN IF severity.threw THEN TypeError
          ELSE ScoreSecurity(slitherResults, i + 1, score + SecurityPoints(severity.value))

RECURSIVE ScoreStyle(_, _, _)
ScoreStyle(solhintResults, i, score) ==
  IF i > Len(solhintResults) THEN Return(score)
  ELSE LET severity == LoweredSeverity(solhintResults[i])
       IN IF severity.threw THEN TypeError
          ELSE ScoreStyle(solhintResults, i + 1, score + StylePoints(severity.value))

Min(a, b) == IF a < b THEN a ELSE b
Max(a, b) == IF a > b THEN a ELSE b

Clamp(score) == Min(100, Max(0, score))

computeRiskScore(slitherResults, solhintResults) ==
  LET afterSecurity == ScoreSecurity(slitherResults, 1, 0)
  IN IF afterSecurity.threw THEN TypeError
     ELSE LET afterStyle == ScoreStyle(solhintResults, 1, afterSecurity.value)
          IN IF afterStyle.threw THEN TypeError
             ELSE Return(Clamp(afterStyle.value))

(***************************************************************************)
(* computeAuditGrade (analyzer.js 290-314)                                 *)
(***************************************************************************)
\* The name as it stands, not lowered.
RawName(bug) ==
  LET v == OrElse(bug.name, JStr(""))
  IN IF v.t = "string" THEN Return(v.s) ELSE TypeError

\* (bug.name || '').toLowerCase()
LoweredName(bug) ==
  LET v == OrElse(bug.name, JStr(""))
  IN IF v.t = "string" THEN Return(toLowerCase(v.s)) ELSE TypeError

\* slitherResults.some(bug => name.includes(a) || name.includes(b)): the scan stops
\* at the first match, and raises where a name cannot be lowered.
RECURSIVE SomeNameIncludes(_, _, _, _)
SomeNameIncludes(slitherResults, i, a, b) ==
  IF i > Len(slitherResults) THEN Return(FALSE)
  ELSE LET name == LoweredName(slitherResults[i])
       IN IF name.threw THEN TypeError
          ELSE IF includes(name.value, a) \/ includes(name.value, b) THEN Return(TRUE)
          ELSE SomeNameIncludes(slitherResults, i + 1, a, b)

GradeThresholdC == 70
GradeThresholdB == 40

\* A grading whose thresholds are reached at the score itself.
GradeOfInclusive(escalated, riskScore) ==
  IF escalated \/ riskScore >= GradeThresholdC THEN "C"
  ELSE IF riskScore >= GradeThresholdB THEN "B"
  ELSE "A"

GradeOf(escalated, riskScore) ==
  IF escalated \/ riskScore > GradeThresholdC THEN "C"
  ELSE IF riskScore > GradeThresholdB THEN "B"
  ELSE "A"

computeAuditGrade(riskScore, slitherResults, solhintResults) ==
  LET hasProxyUpgradeable == SomeNameIncludes(slitherResults, 1, "proxy", "upgradeable")
      hasUnrestrictedMint == SomeNameIncludes(slitherResults, 1, "mint", "unrestricted")
      hasKillSwitch == SomeNameIncludes(slitherResults, 1, "suicide", "selfdestruct")
  IN IF hasProxyUpgradeable.threw \/ hasUnrestrictedMint.threw \/ hasKillSwitch.threw
     THEN TypeError
     ELSE Return(GradeOf(hasProxyUpgradeable.value \/ hasUnrestrictedMint.value
                           \/ hasKillSwitch.value, riskScore))

(***************************************************************************)
(* detectTokenType, detectUnsafePatterns, generateDeploymentWarnings       *)
(* (analyzer.js 316-386)                                                   *)
(***************************************************************************)
detectTokenType(sourceCode) ==
  LET lowerCode == toLowerCase(sourceCode)
  IN IF includes(lowerCode, "erc20") \/ includes(lowerCode, "ierc20") THEN "ERC20"
     ELSE IF includes(lowerCode, "erc721") \/ includes(lowerCode, "ierc721") THEN "ERC721"
     ELSE IF includes(lowerCode, "erc1155") \/ includes(lowerCode, "ierc1155") THEN "ERC1155"
     ELSE IF includes(lowerCode, "uniswap") \/ includes(lowerCode, "pancakeswap")
             \/ includes(lowerCode, "amm") THEN "DeFi"
     ELSE IF includes(lowerCode, "governance") \/ includes(lowerCode, "dao") THEN "Governance"
     ELSE IF includes(lowerCode, "nft") \/ includes(lowerCode, "token") THEN "Token"
     ELSE "Custom"

KillSwitchPattern == "Kill Switch - Contract can be destroyed"

\* A rule that pushes its item twice.
PushTwice(cond, item) == IF cond THEN <<item, item>> ELSE <<>>

\* if (cond) patterns.push(text)
PushIf(cond, item) == IF cond THEN <<item>> ELSE <<>>

detectUnsafePatterns(sourceCode) ==
  LET lowerCode == toLowerCase(sourceCode)
  IN PushIf(includes(lowerCode, "selfdestruct") \/ includes(lowerCode, "suicide"),
            KillSwitchPattern)
     \o PushIf(includes(lowerCode, "delegatecall"),
               "Delegate Call - Potential for code injection")
     \o PushIf(includes(lowerCode, "assembly"), "Assembly Code - Low-level operations")
     \o PushIf(includes(lowerCode, "tx.origin"),
               "tx.origin Usage - Potential phishing vulnerability")
     \o PushIf(includes(lowerCode, "block.timestamp"),
               "Block Timestamp - Time manipulation risk")
     \o PushIf(includes(lowerCode, "block.number"),
               "Block Number - Block manipulation risk")

\* bug.severity === 'High': strict equality, no case folding.
IsHighSeverity(bug) == bug.severity = JStr("High")

\* bug.name.includes(...) on the raw name: a TypeError when the name is undefined or
\* null (no property can be read) or a number (it has no includes method).
NameIsCritical(bug) ==
  IF bug.name.t # "string" THEN TypeError
  ELSE Return(includes(bug.name.s, "reentrancy") \/ includes(bug.name.s, "overflow")
                \/ includes(bug.name.s, "access-control"))

RECURSIVE CountCritical(_, _, _)
CountCritical(slitherResults, i, count) ==
  IF i > Len(slitherResults) THEN Return(count)
  ELSE LET critical == NameIsCritical(slitherResults[i])
       IN IF critical.threw THEN TypeError
          ELSE CountCritical(slitherResults, i + 1,
                             IF critical.value THEN count + 1 ELSE count)

\* The two warnings, without the pictograph each begins with in the source.
HighSeverityWarning(count) == ToString(count) \o " high severity issues found"
CriticalWarning == "Critical security vulnerabilities detected"

generateDeploymentWarnings(slitherResults, solhintResults) ==
  LET highSeverityBugs == SelectSeq(slitherResults, IsHighSeverity)
      criticalBugs == CountCritical(slitherResults, 1, 0)
  IN IF criticalBugs.threw THEN TypeError
     ELSE Return(PushIf(Len(highSeverityBugs) > 0, HighSeverityWarning(Len(highSeverityBugs)))
                 \o PushIf(criticalBugs.value > 0, CriticalWarning))

(***************************************************************************)
(* detectManualVulnerabilities (analyzer.js 587-688)                       *)
(***************************************************************************)
Vulnerability(name, description, severity, confidence) ==
  [name |-> JStr(name), description |-> JStr(description), severity |-> JStr(severity),
   confidence |-> JStr(confidence), line |-> JNum(1), function |-> JStr("Multiple"),
   file |-> JStr("contract.sol")]

detectManualVulnerabilities(sourceCode) ==
  LET lowerCode == toLowerCase(sourceCode)
      has(sub) == includes(lowerCode, sub)
  IN PushIf(has("call") /\ has("external") /\ ~has("reentrancyguard"),
            Vulnerability("Potential Reentrancy",
                          "External calls without reentrancy protection detected",
                          "High", "Medium"))
     \o PushIf(has("call") /\ ~has("require") /\ ~has("assert"),
               Vulnerability("Unchecked External Call",
                             "External calls without proper error handling",
                             "Medium", "Medium"))
     \o PushIf(has("uint") /\ ~has("pragma solidity ^0.8") /\ ~has("pragma solidity 0.8"),
               Vulnerability("Potential Integer Overflow",
                             "Integer operations without overflow protection (pre-Solidity 0.8.0)",
                             "Medium", "High"))
     \o PushIf(has("delegatecall"),
               Vulnerability("Dangerous Delegatecall",
                             "Delegatecall detected - potential for code injection",
                             "High", "High"))
     \o PushIf(has("tx.origin"),
               Vulnerability("tx.origin Usage",
                             "tx.origin used instead of msg.sender - potential phishing vulnerability",
                             "Medium", "High"))
     \o PushIf(has("block.timestamp"),
               Vulnerability("Block Timestamp Dependency",
                             "Block timestamp used - vulnerable to miner manipulation",
                             "Low", "High"))
     \o PushIf(has("function") /\ has("external") /\ ~has("modifier") /\ ~has("onlyowner"),
               Vulnerability("Potential Access Control Issue",
                             "External functions without access control modifiers",
                             "Medium", "Low"))
     \o PushIf(has("selfdestruct") \/ has("suicide"),
               Vulnerability("Self-Destruct Function",
                             "Contract can be destroyed - potential loss of funds",
                             "High", "High"))

(***************************************************************************)
(* detectBasicLintingIssues (analyzer.js 690-739)                          *)
(***************************************************************************)
LintIssue(rule, message, line, column) ==
  [rule |-> JStr(rule), severity |-> JStr("warning"), message |-> JStr(message),
   line |-> JNum(line), column |-> JNum(column)]

MaxLineLength == 120

\* The body of lines.forEach((line, index) => ...), index counted from 0 as in the
\* source; lines[index + 1] is undefined past the end and falsy when it is ''.
LintLine(lines, index) ==
  LET line == lines[index + 1]
      trimmedLine == trim(line)
      hasNext == index + 2 <= Len(lines)
      nextLine == IF hasNext THEN lines[index + 2] ELSE ""
  IN PushIf(index = 0 /\ ~includes(trimmedLine, "SPDX-License-Identifier"),
            LintIssue("spdx-license-identifier", "Missing SPDX license identifier",
                      index + 1, 1))
     \o PushIf(Len(trimmedLine) > MaxLineLength,
               LintIssue("max-line-length", "Line too long (max 120 characters)",
                         index + 1, 1))
     \o PushIf(trimmedLine = "" /\ hasNext /\ nextLine # "" /\ trim(nextLine) = "",
               LintIssue("no-consecutive-blank-lines", "Multiple consecutive blank lines",
                         index + 1, 1))
     \o PushIf(endsWith(line, " ") \/ endsWith(line, "\t"),
               LintIssue("no-trailing-whitespace", "Trailing whitespace",
                         index + 1, Len(line)))

\* lines.forEach((line, index) => ...)
LintLines(lines) ==
  FlatMap([i \in 1..Len(lines) |-> i - 1], LAMBDA index : LintLine(lines, index))

detectBasicLintingIssues(sourceCode) == LintLines(split(sourceCode, "\n"))

(***************************************************************************)
(* runSlither, runSolhint (analyzer.js 86-184)                             *)
(*                                                                         *)
(* exec hands its callback (error, stdout, stderr).  stdout is a text; a   *)
(* text that is a JSON document carries the value JSON.parse gives for it. *)
(***************************************************************************)
TextOut(text) == [text |-> text]
JsonOut(doc) == [text |-> "{json}", doc |-> doc]

\* JSON.parse(stdout): the document, or a SyntaxError for any other text.
SyntaxError == [threw |-> TRUE]
JSONparse(stdout) == IF "doc" \in DOMAIN stdout THEN Return(stdout.doc) ELSE SyntaxError

\* !stdout || stdout.trim() === ''
NoOutput(stdout) == stdout.text = "" \/ trim(stdout.text) = ""

SlitherBug(detector, element) ==
  [name |-> Get(detector, "check"),
   description |-> Get(detector, "description"),
   severity |-> Get(detector, "impact"),
   confidence |-> Get(detector, "confidence"),
   line |-> Get(element, "line"),
   function |-> OrElse(Get(element, "function_name"), JStr("N/A")),
   file |-> OrElse(Get(element, "filename"), JStr("contract.sol"))]

\* detector.elements.forEach(element => bugs.push({...}))
RECURSIVE PushElements(_, _, _)
PushElements(detector, elements, j) ==
  IF j > Len(elements) THEN Return(<<>>)
  ELSE IF Nullish(elements[j]) THEN TypeError
  ELSE LET rest == PushElements(detector, elements, j + 1)
       IN IF rest.threw THEN TypeError
          ELSE Return(<<SlitherBug(detector, elements[j])>> \o rest.value)

\* results.results.detectors.forEach(detector => { if (detector.elements) ... })
RECURSIVE PushDetectors(_, _)
PushDetectors(detectors, i) ==
  IF i > Len(detectors) THEN Return(<<>>)
  ELSE IF Nullish(detectors[i]) THEN TypeError
  ELSE LET elements == Get(detectors[i], "elements")
           mine == IF ~Truthy(elements) THEN Return(<<>>)
                   ELSE IF elements.t # "array" THEN TypeError
                   ELSE PushElements(detectors[i], elements.items, 1)
           rest == PushDetectors(detectors, i + 1)
       IN IF mine.threw \/ rest.threw THEN TypeError
          ELSE Return(mine.value \o rest.value)

\* The try block of the exec callback of runSlither.
ParseSlither(results) ==
  IF Nullish(results) THEN TypeError
  ELSE IF ~Truthy(Get(results, "results")) THEN Return(<<>>)
  ELSE LET detectors == Get(Get(results, "results"), "detectors")
       IN IF ~Truthy(detectors) THEN Return(<<>>)
          ELSE IF detectors.t # "array" THEN TypeError
          ELSE PushDetectors(detectors.items, 1)

\* How the promise of runSlither or runSolhint is settled: resolve(list).
Resolved(list) == [settled |-> "resolved", value |-> list]

\* A try block whose error goes on to reject the promise.
Rethrown(outcome) ==
  IF outcome.threw THEN [settled |-> "rejected", value |-> <<>>]
  ELSE Resolved(outcome.value)

\* The try block ends in resolve(list); its catch block in resolve([]).
Caught(outcome) == IF outcome.threw THEN Resolved(<<>>) ELSE Resolved(outcome.value)

\* How runSlither's promise is settled; error is only logged.
runSlither(error, stdout) ==
  IF NoOutput(stdout) THEN Resolved(<<>>)
  ELSE LET results == JSONparse(stdout)
       IN Caught(IF results.threw THEN results ELSE ParseSlither(results.value))

SolhintIssue(message) ==
  [rule |-> Get(message, "ruleId"),
   severity |-> Get(message, "severity"),
   message |-> Get(message, "message"),
   line |-> Get(message, "line"),
   column |-> Get(message, "column")]

\* file.messages.forEach(message => linting.push({...}))
RECURSIVE PushMessages(_, _)
PushMessages(messages, j) ==
  IF j > Len(messages) THEN Return(<<>>)
  ELSE IF Nullish(messages[j]) THEN TypeError
  ELSE LET rest == PushMessages(messages, j + 1)
       IN IF rest.threw THEN TypeError
          ELSE Return(<<SolhintIssue(messages[j])>> \o rest.value)

\* results.forEach(file => { if (file.messages) ... })
RECURSIVE PushFiles(_, _)
PushFiles(files, i) ==
  IF i > Len(files) THEN Return(<<>>)
  ELSE IF Nullish(files[i]) THEN TypeError
  ELSE LET messages == Get(files[i], "messages")
           mine == IF ~Truthy(messages) THEN Return(<<>>)
                   ELSE IF messages.t # "array" THEN TypeError
                   ELSE PushMessages(messages.items, 1)
           rest == PushFiles(files, i + 1)
       IN IF mine.threw \/ rest.threw THEN TypeError
          ELSE Return(mine.value \o rest.value)

\* results.length > 0: true only of a number above zero.
LengthAboveZero(v) == LET n == Get(v, "length") IN n.t = "number" /\ n.n > 0

\* The try block of the exec callback of runSolhint.
ParseSolhint(results) ==
  IF ~Truthy(results) THEN Return(<<>>)
  ELSE IF ~LengthAboveZero(results) THEN Return(<<>>)
  ELSE IF results.t # "array" THEN TypeError
  ELSE PushFiles(results.items, 1)

runSolhint(error, stdout) ==
  IF NoOutput(stdout) THEN Resolved(<<>>)
  ELSE LET results == JSONparse(stdout)
       IN Caught(IF results.threw THEN results ELSE ParseSolhint(results.value))

(***************************************************************************)
(* Regular-expression scanning.  Positions are 1-based; a match at         *)
(* position p has match.index = p - 1.  Each pattern of the source is      *)
(* matched the way the backtracking engine matches it: leftmost start,     *)
(* greedy quantifiers, an optional group tried before it is skipped.       *)
(***************************************************************************)
WordChars == "abcdefghijklmnopqrstuvwxyzABCDEFGHIJKLMNOPQRSTUVWXYZ0123456789_"

\* \w
WordCharSet == {CharAt(WordChars, i) : i \in 1..Len(WordChars)}

\* The literal lit stands at position p of s.
StartsAt(s, p, lit) == p >= 1 /\ p + Len(lit) - 1 <= Len(s) /\ SubSeq(s, p, p + Len(lit) - 1) = lit

\* The pieces a pattern is made of.  group is the number of the capturing group
\* the piece is, 0 when it captures nothing.
\* (a|b|c), (?:a|b|c) or a literal: the alternatives are tried from left to right.
Alt(alternatives, group) == [t |-> "alt", alts |-> alternatives, group |-> group]
Lit(text) == Alt(<<text>>, 0)
\* (?:a|b|c)?: an alternative is taken before the group is skipped.
Opt(alternatives) == Alt(Append(alternatives, ""), 0)
\* [chars]* and [chars]+, or [^chars]* and [^chars]+ with inside FALSE; min is the
\* least number of characters (0 for *, 1 for +).  Greedy.
Many(chars, inside, min, group) ==
  [t |-> "many", chars |-> chars, inside |-> inside, min |-> min, group |-> group]
\* (?: ... )? around a sequence of pieces
OptSeq(seq) == [t |-> "optseq", seq |-> seq]
\* $
EndOfInput == [t |-> "end"]

NoMatch == [ok |-> FALSE]
NoGroups == <<JUndef, JUndef, JUndef>>

Capture(groups, group, text) ==
  IF group = 0 THEN groups ELSE [groups EXCEPT ![group] = JStr(text)]

\* A way of matching the pieces so far: the position after them and the groups
\* captured.  The backtracking engine tries the ways in a fixed order (leftmost
\* alternative first, longest run first, an optional group before its absence)
\* and answers with the first one that reaches the end of the pattern; Ways lists
\* them in that order.
Way(p, groups) == [end |-> p, groups |-> groups]

\* The runs [chars]{min,} can take from position p, the longest first.
Runs(piece, s, way, stop) ==
  [k \in 1..(stop - way.end - piece.min + 1) |->
     Way(stop - k + 1, Capture(way.groups, piece.group, SubSeq(s, way.end, stop - k)))]

RECURSIVE Ways(_, _, _, _)
RECURSIVE Choices(_, _, _)
\* The ways of matching one more piece after way, in the order of the engine.
Choices(piece, s, way) ==
  CASE piece.t = "alt" ->
         FlatMap(piece.alts,
                 LAMBDA alt : IF StartsAt(s, way.end, alt)
                              THEN <<Way(way.end + Len(alt),
                                         Capture(way.groups, piece.group, alt))>>
                              ELSE <<>>)
    [] piece.t = "many" ->
         Runs(piece, s, way, FirstChar(s, way.end, Len(s), piece.chars, ~piece.inside))
    [] piece.t = "optseq" -> Ways(piece.seq, s, 1, <<way>>) \o <<way>>
    [] piece.t = "end" -> IF way.end = Len(s) + 1 THEN <<way>> ELSE <<>>

\* The ways of matching the pieces pattern[i], pattern[i + 1], ... after each of ways.
Ways(pattern, s, i, ways) ==
  IF ways = <<>> \/ i > Len(pattern) THEN ways
  ELSE Ways(pattern, s, i + 1, FlatMap(ways, LAMBDA way : Choices(pattern[i], s, way)))

\* The backtracking match of pattern at position p of s.
Match(pattern, s, p) == Ways(pattern, s, 1, <<Way(p, NoGroups)>>)

\* regex.exec(s) with lastIndex = from - 1: the match at the leftmost position at
\* or after from.  Positions are 1-based, match.index is 0-based.
Found(p, ways) ==
  [ok |-> TRUE, index |-> p - 1, end |-> ways[1].end, groups |-> ways[1].groups]

SearchIn(pattern, s, starts) ==
  IF starts = {} THEN NoMatch ELSE Found(Least(starts), Match(pattern, s, Least(starts)))

Search(pattern, s, from) ==
  SearchIn(pattern, s, {p \in from..Len(s) : Match(pattern, s, p) # <<>>})

\* while ((match = regex.exec(sourceCode)) !== null): the matches of a /g pattern in
\* order, each search starting where the previous match ended (lastIndex).
RECURSIVE ExecAll(_, _, _)
RECURSIVE ExecLoop(_, _, _)
ExecAll(pattern, s, from) == ExecLoop(pattern, s, Search(pattern, s, from))

\* The body of the loop for one match, then the next exec.
ExecLoop(pattern, s, match) ==
  IF ~match.ok THEN <<>> ELSE <<match>> \o ExecAll(pattern, s, match.end)

\* matches.map(f)
MapSeq(matches, F(_)) == [i \in 1..Len(matches) |-> F(matches[i])]

\* \s*, \s+ and (\w+)
Space == Many(WhiteSpace, TRUE, 0, 0)
Space1 == Many(WhiteSpace, TRUE, 1, 0)
Word(group) == Many(WordCharSet, TRUE, 1, group)

Visibilities == <<"external", "public", "internal", "private">>
Mutabilities == <<"view", "pure", "payable">>
TypeKeywords == <<"uint", "int", "bool", "address", "string", "bytes", "mapping">>
Quotes == <<"'", "\"">>

\* function\s+(\w+)\s*\(([^)]*)\)\s*(?:external|public|internal|private)?\s*
\* (?:view|pure|payable)?\s*
FunctionSignature(paramsGroup) ==
  <<Lit("function"), Space1, Word(1), Space, Lit("("),
    Many({")"}, FALSE, 0, paramsGroup), Lit(")"), Space, Opt(Visibilities), Space,
    Opt(Mutabilities), Space>>

\* (?:returns\s*\(([^)]*)\))?
ReturnsGroup(group) ==
  OptSeq(<<Lit("returns"), Space, Lit("("), Many({")"}, FALSE, 0, group), Lit(")")>>)

\* /import\s+['"]([^'"]+)['"]/g (line 195)
importRegex ==
  <<Lit("import"), Space1, Alt(Quotes, 0), Many({"'", "\""}, FALSE, 1, 1), Alt(Quotes, 0)>>

\* The functionRegex of extractContractDetails (line 201)
functionRegex == FunctionSignature(0) \o <<ReturnsGroup(0), Space, Lit("{")>>

\* /modifier\s+(\w+)\s*\([^)]*\)\s*{/g (line 210)
modifierRegex ==
  <<Lit("modifier"), Space1, Word(1), Space, Lit("("), Many({")"}, FALSE, 0, 0), Lit(")"),
    Space, Lit("{")>>

\* The stateVarRegex of extractContractDetails (line 217):
\* (?:uint|...|mapping)\s+(?:public|private|internal|external)?\s*(\w+)\s*;
stateVarRegex ==
  <<Alt(TypeKeywords, 0), Space1, Opt(<<"public", "private", "internal", "external">>),
    Space, Word(1), Space, Lit(";")>>

\* /event\s+(\w+)\s*\([^)]*\)/g (line 225)
eventRegex ==
  <<Lit("event"), Space1, Word(1), Space, Lit("("), Many({")"}, FALSE, 0, 0), Lit(")")>>

\* The functionRegex of generateManualABI (line 442)
abiFunctionRegex == FunctionSignature(2) \o <<ReturnsGroup(3)>>

\* The eventRegex of generateManualABI (line 466)
abiEventRegex ==
  <<Lit("event"), Space1, Word(1), Space, Lit("("), Many({")"}, FALSE, 0, 2), Lit(")")>>

\* The stateVarRegex of generateManualABI (line 480):
\* (?:uint|...|mapping)\s+(?:public)\s*(\w+)\s*;
abiStateVarRegex ==
  <<Alt(TypeKeywords, 0), Space1, Lit("public"), Space, Word(1), Space, Lit(";")>>

\* /(uint|int|bool|address|string|bytes|mapping)\s*[^;]*$/ (lines 254 and 544)
typeRegex == <<Alt(TypeKeywords, 1), Space, Many({";"}, FALSE, 0, 0), EndOfInput>>

\* sourceCode.substring(Math.max(0, index - n), index), index counted from 0; a
\* negative start is clamped to 0 by substring itself.
Before(sourceCode, index, n) == SubSeq(sourceCode, Max(0, index - n) + 1, index)

\* beforeMatch.match(typeRegex)
TypeMatch(beforeMatch) == Search(typeRegex, beforeMatch, 1)

\* typeMatch ? typeMatch[1] : otherwise
TypeOr(typeMatch, otherwise) ==
  IF typeMatch.ok THEN typeMatch.groups[1].s ELSE otherwise

\* An inventory that has lost its imports.
DetailsWithoutImports(sourceCode) ==
  [functions |-> <<>>, modifiers |-> <<>>, stateVariables |-> <<>>, events |-> <<>>]

(***************************************************************************)
(* extractContractDetails and its helpers (analyzer.js 186-256)            *)
(***************************************************************************)
extractVisibility(sourceCode, index) ==
  LET beforeMatch == Before(sourceCode, index, 50)
  IN IF includes(beforeMatch, "public") THEN "public"
     ELSE IF includes(beforeMatch, "private") THEN "private"
     ELSE IF includes(beforeMatch, "internal") THEN "internal"
     ELSE IF includes(beforeMatch, "external") THEN "external"
     ELSE "internal"

extractFunctionType(sourceCode, index) ==
  LET beforeMatch == Before(sourceCode, index, 50)
  IN IF includes(beforeMatch, "view") THEN "view"
     ELSE IF includes(beforeMatch, "pure") THEN "pure"
     ELSE IF includes(beforeMatch, "payable") THEN "payable"
     ELSE "non-payable"

extractVariableType(sourceCode, index) ==
  TypeOr(TypeMatch(Before(sourceCode, index, 100)), "unknown")

extractContractDetails(sourceCode) ==
  [imports |-> MapSeq(ExecAll(importRegex, sourceCode, 1), LAMBDA match : match.groups[1].s),
   functions |->
     MapSeq(ExecAll(functionRegex, sourceCode, 1),
            LAMBDA match : [name |-> match.groups[1].s,
                            visibility |-> extractVisibility(sourceCode, match.index),
                            type |-> extractFunctionType(sourceCode, match.index)]),
   modifiers |-> MapSeq(ExecAll(modifierRegex, sourceCode, 1),
                        LAMBDA match : [name |-> match.groups[1].s]),
   stateVariables |->
     MapSeq(ExecAll(stateVarRegex, sourceCode, 1),
            LAMBDA match : [name |-> match.groups[1].s,
                            type |-> extractVariableType(sourceCode, match.index)]),
   events |-> MapSeq(ExecAll(eventRegex, sourceCode, 1),
                     LAMBDA match : [name |-> match.groups[1].s])]

(***************************************************************************)
(* generateABI, generateManualABI and helpers (analyzer.js 388-546)        *)
(***************************************************************************)
\* s.replace(sub, ''): the first occurrence of sub removed.
RemoveFirst(s, sub) ==
  IF ~includes(s, sub) THEN s
  ELSE LET i == CHOOSE i \in 1..(Len(s) - Len(sub) + 1) :
                  /\ SubSeq(s, i, i + Len(sub) - 1) = sub
                  /\ \A j \in 1..(i - 1) : SubSeq(s, j, j + Len(sub) - 1) # sub
       IN SubSeq(s, 1, i - 1) \o SubSeq(s, i + Len(sub), Len(s))

\* s.split(/\s+/): the pieces between the runs of white space.
RECURSIVE SplitSpace(_, _)
RECURSIVE SplitSpaceAt(_, _, _)
SplitSpace(s, start) == SplitSpaceAt(s, start, FirstChar(s, start, Len(s), WhiteSpace, TRUE))

SplitSpaceAt(s, start, stop) ==
  IF stop > Len(s) THEN <<SubSeq(s, start, Len(s))>>
  ELSE <<SubSeq(s, start, stop - 1)>>
       \o SplitSpace(s, FirstChar(s, stop, Len(s), WhiteSpace, FALSE))

\* const type = parts[0]; const name = parts[1] || ''; and the returned object
ParamOf(parts, isIndexed) ==
  [type |-> parts[1], name |-> IF Len(parts) > 1 THEN parts[2] ELSE "",
   internalType |-> parts[1], indexed |-> isIndexed]

\* The body of params.split(',').map(param => ...) after the trim: nothing for a
\* blank piece (the null that filter(Boolean) drops).
ParseTrimmed(trimmed) ==
  IF trimmed = "" THEN <<>>
  ELSE <<ParamOf(SplitSpace(trim(RemoveFirst(trimmed, "indexed")), 1),
                 includes(trimmed, "indexed"))>>

ParseParam(param) == ParseTrimmed(trim(param))

RECURSIVE ParseParams(_, _)
ParseParams(pieces, i) ==
  IF i > Len(pieces) THEN <<>> ELSE ParseParam(pieces[i]) \o ParseParams(pieces, i + 1)

parseFunctionParams(params) ==
  IF params = "" \/ trim(params) = "" THEN <<>> ELSE ParseParams(split(params, ","), 1)

parseEventParams(params) == parseFunctionParams(params)

getStateMutability(sourceCode, index) ==
  LET beforeMatch == Before(sourceCode, index, 100)
  IN IF includes(beforeMatch, "pure") THEN "pure"
     ELSE IF includes(beforeMatch, "view") THEN "view"
     ELSE IF includes(beforeMatch, "payable") THEN "payable"
     ELSE "nonpayable"

getVariableType(sourceCode, index) ==
  TypeOr(TypeMatch(Before(sourceCode, index, 100)), "uint256")

\* functionName === 'constructor' || sourceCode.substring(match.index - 50,
\* match.index).includes('internal'): the function is left out of the ABI.
SkippedFunction(sourceCode, match) ==
  match.groups[1].s = "constructor" \/ includes(Before(sourceCode, match.index, 50), "internal")

AbiFunction(sourceCode, match) ==
  [type |-> "function", name |-> match.groups[1].s,
   inputs |-> parseFunctionParams(match.groups[2].s),
   outputs |-> IF Truthy(match.groups[3]) THEN parseFunctionParams(match.groups[3].s) ELSE <<>>,
   stateMutability |-> getStateMutability(sourceCode, match.index)]

AbiEvent(match) ==
  [type |-> "event", name |-> match.groups[1].s, inputs |-> parseEventParams(match.groups[2].s),
   anonymous |-> FALSE]

Accessor(name, varType) ==
  [type |-> "function", name |-> name, inputs |-> <<>>,
   outputs |-> <<[type |-> varType, name |-> "", internalType |-> varType]>>,
   stateMutability |-> "view"]

AbiAccessor(sourceCode, match) ==
  Accessor(match.groups[1].s, getVariableType(sourceCode, match.index))

\* A manual extraction that finds nothing.
NoManualABI(sourceCode) == <<>>

\* No statement of the try block can raise on a string, so the catch (return [])
\* is never entered.
generateManualABI(sourceCode) ==
  MapSeq(SelectSeq(ExecAll(abiFunctionRegex, sourceCode, 1),
                   LAMBDA match : ~SkippedFunction(sourceCode, match)),
         LAMBDA match : AbiFunction(sourceCode, match))
  \o MapSeq(ExecAll(abiEventRegex, sourceCode, 1), LAMBDA match : AbiEvent(match))
  \o MapSeq(ExecAll(abiStateVarRegex, sourceCode, 1),
            LAMBDA match : AbiAccessor(sourceCode, match))

\* const output = JSON.parse(solc.compile(...)) and what follows it in the try block:
\* compiled is the outcome of that statement (a thrown error, or the output value).
\* Any TypeError below is caught and answered with the manual ABI.
CompiledAbi(compiled) ==
  IF compiled.threw THEN TypeError
  ELSE LET output == compiled.value
       IN IF Nullish(output) \/ Nullish(Get(output, "contracts")) THEN TypeError
          ELSE LET contracts == Get(Get(output, "contracts"), "contract.sol")
               IN IF ~Truthy(contracts) THEN Return(JUndef)
                  ELSE LET keys == IF "keys" \in DOMAIN contracts THEN contracts.keys ELSE <<>>
                           entry == IF Len(keys) = 0 THEN JUndef ELSE Get(contracts, keys[1])
                       IN IF Nullish(entry) \/ Nullish(Get(entry, "abi")) THEN TypeError
                          ELSE Return(Get(entry, "abi"))

(***************************************************************************)
(* Inputs: source texts, tool outputs, compiler outputs                    *)
(***************************************************************************)
\* A contract whose only finding is its selfdestruct call.
SourceKill ==
  "// SPDX-License-Identifier: MIT\npragma solidity ^0.8.0;\ncontract Vault {\n"
  \o "  address owner;\n  function kill() public {\n    selfdestruct(payable(owner));\n  }\n}"

\* The withdraw scenario: an external function making a low-level call.
SourceWithdraw == "function withdraw() external { token.call(\"\"); }"

\* A source that trips most heuristic rules and every lint rule.
SourceRisky ==
  "pragma solidity ^0.7.0;\nimport \"./Lib.sol\";\n \n\t\ncontract Bank { \n"
  \o "  uint total;\n  address public admin;\n"
  \o "  function pay(address to, uint amount) external payable returns (bool ok) {\n"
  \o "    if (tx.origin == admin && block.timestamp > 0) selfdestruct(payable(to));\n"
  \o "    to.delegatecall(\"\");\n"
  \o "    // " \o Repeat("x", 121) \o "\n"
  \o "  }\n}"

\* A source no heuristic rule fires on.
SourceToken ==
  "// SPDX-License-Identifier: MIT\npragma solidity ^0.8.0;\ncontract Token {\n"
  \o "  string public name;\n  event Transfer(address indexed from, address to);\n"
  \o "  modifier guarded() { _; }\n"
  \o "  function helper() internal {}\n  function ping() public view returns (bool) {}\n}"

SourceTexts == {"", SourceKill, SourceWithdraw, SourceRisky, SourceToken}

\* The functions of the source text alone, worked out once for each input text.
OnSource ==
  [sourceCode \in SourceTexts |->
     [detectManualVulnerabilities |-> detectManualVulnerabilities(sourceCode),
      detectBasicLintingIssues |-> detectBasicLintingIssues(sourceCode),
      detectTokenType |-> detectTokenType(sourceCode),
      detectUnsafePatterns |-> detectUnsafePatterns(sourceCode),
      extractContractDetails |-> extractContractDetails(sourceCode),
      generateManualABI |-> generateManualABI(sourceCode)]]

\* A fallback that answers a failed compilation with the empty list.
AbiOrEmpty(abi, sourceCode) ==
  IF abi.threw \/ abi.value = JUndef THEN JArr(<<>>) ELSE abi.value

\* The catch block and the "No contracts found" path both return
\* this.generateManualABI(sourceCode).
AbiOrManual(abi, sourceCode) ==
  IF abi.threw \/ abi.value = JUndef THEN JArr(OnSource[sourceCode].generateManualABI)
  ELSE abi.value

generateABI(sourceCode, compiled) == AbiOrManual(CompiledAbi(compiled), sourceCode)

\* What exec's callback receives: error is "none" (exit status 0), "absent" (the
\* shell finds no such tool and prints nothing to stdout), "exit" (a non-zero exit
\* status) or "timeout" (the process was killed when the timeout elapsed).
Run(error, stdout) == [error |-> error, stdout |-> stdout]

SlitherElement(name) == JObj([type |-> JStr("function"), name |-> JStr(name)])

SlitherDetector(check, impact, element) ==
  JObj([check |-> JStr(check), impact |-> JStr(impact), confidence |-> JStr("High"),
        description |-> JStr(check \o " in " \o element),
        elements |-> JArr(<<SlitherElement(element)>>)])

SlitherReport(detectors) ==
  JsonOut(JObj([success |-> JStr("true"), error |-> JNull,
                results |-> JObj([detectors |-> JArr(detectors)])]))

\* {"success": true, "error": null, "results": {}}
SlitherNoFindings ==
  JsonOut(JObj([success |-> JStr("true"), error |-> JNull, results |-> JObj(<<>>)]))

SlitherSuicidal == SlitherReport(<<SlitherDetector("suicidal", "High", "kill")>>)

SlitherThreeHigh ==
  SlitherReport(<<SlitherDetector("reentrancy-eth", "High", "withdraw"),
                  SlitherDetector("arbitrary-send-eth", "High", "withdraw"),
                  SlitherDetector("controlled-delegatecall", "High", "pay")>>)

\* A detector entry that carries no "check" field.
SlitherUnnamed ==
  SlitherReport(<<JObj([impact |-> JStr("Low"), confidence |-> JStr("Medium"),
                        elements |-> JArr(<<SlitherElement("pay")>>)])>>)

Traceback == TextOut("Traceback (most recent call last):")

\* JSON of a shape the callbacks do not expect: null, a string, an object whose
\* detectors are no array, an array that holds null.
SlitherOddShapes ==
  {JsonOut(JNull), JsonOut(JStr("no findings")),
   JsonOut(JObj([results |-> JObj([detectors |-> JObj([count |-> JNum(1)])])]))}

SolhintOddShapes ==
  {JsonOut(JNull), JsonOut(JStr("no findings")), JsonOut(JObj([length |-> JNum(1)])),
   JsonOut(JArr(<<JNull>>))}

SlitherRuns ==
  {Run("none", SlitherNoFindings), Run("exit", SlitherSuicidal),
   Run("exit", SlitherThreeHigh), Run("exit", SlitherUnnamed),
   Run("exit", Traceback), Run("absent", TextOut("")), Run("timeout", TextOut("")),
   Run("timeout", TextOut("{\"success\": tr")), Run("none", TextOut(" \n"))}
  \cup {Run("none", stdout) : stdout \in SlitherOddShapes}

SolhintMessage(ruleId, severity, line) ==
  JObj([ruleId |-> JStr(ruleId), severity |-> severity, message |-> JStr(ruleId),
        line |-> JNum(line), column |-> JNum(1)])

SolhintReport(messages) ==
  JsonOut(JArr(<<JObj([filePath |-> JStr("contract.sol"), messages |-> JArr(messages)])>>))

\* Severities as numeric codes, the ESLint report style.
SolhintNumeric == SolhintReport(<<SolhintMessage("compiler-version", JNum(2), 2)>>)

SolhintNamed ==
  SolhintReport(<<SolhintMessage("compiler-version", JStr("Error"), 2),
                  SolhintMessage("avoid-suicide", JStr("Warning"), 6)>>)

\* One object per message, none with a "messages" field.
SolhintFlat ==
  JsonOut(JArr(<<SolhintMessage("compiler-version", JStr("Error"), 2),
                 JObj([conclusion |-> JStr("1 problem")])>>))

SolhintRuns ==
  {Run("none", JsonOut(JArr(<<>>))), Run("exit", SolhintNumeric), Run("exit", SolhintNamed),
   Run("exit", SolhintFlat), Run("absent", TextOut("")), Run("timeout", TextOut("")),
   Run("timeout", TextOut("[{\"messages\": [")), Run("none", TextOut(" \n"))}
  \cup {Run("exit", stdout) : stdout \in SolhintOddShapes}

\* JSON.parse(solc.compile(...)): a thrown error or the output value.
CompileThrows == TypeError

\* {"errors": [...]}: the source does not compile, no "contracts" key.
CompileErrors == Return(JObj([errors |-> JArr(<<JStr("ParserError")>>)]))

\* {"contracts": {}}
CompileNoUnit == Return(JObj([contracts |-> JObj(<<>>)]))

\* {"contracts": {"contract.sol": {}}}
CompileEmptyUnit == Return(JObj([contracts |-> JObj("contract.sol" :> JObjKeys(<<>>, <<>>))]))

SolcAbi(names) ==
  JArr([i \in DOMAIN names |->
          [type |-> "function", name |-> names[i], inputs |-> <<>>, outputs |-> <<>>,
           stateMutability |-> "nonpayable"]])

CompileOk(contractName, names) ==
  Return(JObj([contracts |->
                 JObj("contract.sol" :>
                        JObjKeys(<<contractName>>,
                                 contractName :> JObj([abi |-> SolcAbi(names)])))]))

\* The outcomes the compiler can have on a source: a source that is no complete
\* contract never compiles.
CompileOutcomes(sourceCode) ==
  {CompileThrows, CompileErrors, CompileNoUnit, CompileEmptyUnit}
  \cup (IF sourceCode = SourceKill THEN {CompileOk("Vault", <<"kill">>)} ELSE {})
  \cup (IF sourceCode = SourceToken THEN {CompileOk("Token", <<"name", "ping">>)} ELSE {})

\* The summarizer's answers: a completion, a rejected request, a completion
\* without choices.
Completion(content) ==
  Return(JObj([choices |-> JArr(<<JObj([message |-> JObj([content |-> JStr(content)])])>>)]))

SummaryText == "The contract can be destroyed by anyone."

SummarizerReplies ==
  {Completion(SummaryText), TypeError,
   Return(JObj([choices |-> JArr(<<>>)]))}

(***************************************************************************)
(* generateAISummary (analyzer.js 548-585)                                 *)
(***************************************************************************)
\* What is sent to the summarizer: the prompt is built from the first 2000
\* characters of the source and from the two lists handed in.
PromptLimit == 2000

SummaryRequest(sourceCode, slitherResults, solhintResults) ==
  [excerpt |-> SubSeq(sourceCode, 1, Min(PromptLimit, Len(sourceCode))),
   slitherResults |-> slitherResults, solhintResults |-> solhintResults]

\* A summary that answers a failed request with an empty text.
SummaryOrEmpty(reply) ==
  IF reply = Completion(SummaryText) THEN JStr(SummaryText) ELSE JStr("")

\* completion.choices[0].message.content, inside the try block: a rejected request
\* or an unreadable completion is caught and answered with null.
generateAISummary(reply) ==
  IF reply.threw THEN JNull
  ELSE LET choices == Get(reply.value, "choices")
           first == IF choices.t = "array" /\ Len(choices.items) > 0
                    THEN choices.items[1] ELSE JUndef
       IN IF Nullish(choices) \/ Nullish(first) \/ Nullish(Get(first, "message"))
          THEN JNull
          ELSE Get(Get(first, "message"), "content")

(***************************************************************************)
(* State                                                                   *)
(***************************************************************************)
VARIABLES
  requests,         \* the analysis requests the process serves (fixed)
  openai,           \* whether the module-level OpenAI client exists (line 7)
  tempDir,          \* whether the directory backend/temp exists
  contractFile,     \* temp/contract.sol: absent, or its content
  pc,               \* per request: where analyzeContract stands
  call,             \* per request: entry point and arguments
  ensureDir,        \* per request: the constructor's ensureTempDir()
  slither,          \* per request: the runSlither promise
  solhint,          \* per request: the runSolhint promise
  contractDetails,  \* per request: the extractContractDetails result
  finals,           \* per request: final lists, score, grade, token type
  summary,          \* per request: the summarizer call
  solc,             \* per request: what JSON.parse(solc.compile(...)) gave
  analysis,         \* per request: the assembled record
  failure,          \* per request: the error analyzeContract threw
  diagnostics,      \* scoring and grading alone: the two lists handed in
  riskScore,        \* scoring and grading alone: the score
  auditGrade,       \* grading alone: the grade returned
  inventory,        \* extraction alone: per text, the calls made and the last result
  account,          \* App: the connected account (useState, line 174)
  sessionPaid,      \* App: whether analysis is unlocked (line 178)
  isLoading,        \* App: the busy flag (line 179)
  page,             \* App: analysisMode, sourceCode, contractAddress, analysis
  wallet,           \* App: per call of connectWallet, where it stands
  payment,          \* App: per call of payForAnalysis, where it stands
  posted,           \* App: the analysis requests sent to the backend
  draft,            \* a heuristic alone: the source text handed in, piece by piece
  found             \* a heuristic alone: what it returned for the text

pipelineVars == <<requests, openai, tempDir, contractFile, pc, call, ensureDir, slither,
                  solhint, contractDetails, finals, summary, solc, analysis, failure>>
pureVars == <<diagnostics, riskScore, auditGrade, inventory>>
appVars == <<account, sessionPaid, isLoading, page, wallet, payment, posted>>
textVars == <<draft, found>>
vars == <<pipelineVars, pureVars, appVars, textVars>>

NoFile == [exists |-> FALSE]
File(data) == [exists |-> TRUE, data |-> data]

None == [state |-> "none"]
Idle == [state |-> "idle"]
Running == [state |-> "running"]

InitPipeline(ids) ==
  /\ requests = ids
  /\ openai \in BOOLEAN
  /\ tempDir \in BOOLEAN
  /\ contractFile = NoFile
  /\ pc = [c \in ids |-> "idle"]
  /\ call = [c \in ids |-> None]
  /\ ensureDir = [c \in ids |-> "idle"]
  /\ slither = [c \in ids |-> Idle]
  /\ solhint = [c \in ids |-> Idle]
  /\ contractDetails = [c \in ids |-> None]
  /\ finals = [c \in ids |-> None]
  /\ summary = [c \in ids |-> None]
  /\ solc = [c \in ids |-> None]
  /\ analysis = [c \in ids |-> None]
  /\ failure = [c \in ids |-> "none"]

\* No extraction has been made.
NoInventory == [text \in SourceTexts |-> None]

\* How many calls of connectWallet and of payForAnalysis are made, and how many
\* analysis requests are sent.
MaxConnects == 1
MaxPayments == 1
MaxPosts == 1

\* function App(): the initial values of useState (lines 174-183).
InitApp ==
  /\ account = JNull
  /\ sessionPaid = FALSE
  /\ isLoading = FALSE
  /\ page = [analysisMode |-> "code", sourceCode |-> "", contractAddress |-> "",
             analysis |-> JNull]
  /\ wallet = [k \in 1..MaxConnects |-> "idle"]
  /\ payment = [k \in 1..MaxPayments |-> "idle"]
  /\ posted = <<>>

\* No text has been handed to a heuristic.
InitText ==
  /\ draft = [pieces |-> <<>>, text |-> ""]
  /\ found = None

InitPure ==
  /\ diagnostics = [slitherResults |-> <<>>, solhintResults |-> <<>>, pushes |-> 0]
  /\ riskScore = Return(0)
  /\ auditGrade = Return("A")
  /\ inventory = NoInventory

(***************************************************************************)
(* analyzeContract (analyzer.js 21-84), the exported analyzeContract       *)
(* (742-747) and POST /api/analyze (server, 28-51)                         *)
(***************************************************************************)
\* The values a caller hands in as sourceCode: a text, or nothing at all.  Two
\* requests in flight carry two different texts.
ParallelTexts == <<SourceKill, SourceWithdraw>>

SourceCodes(c) ==
  IF Cardinality(requests) > 1 THEN {JStr(ParallelTexts[c])}
  ELSE {JStr(text) : text \in SourceTexts} \cup {JUndef}

\* The outcomes drawn from: all of them for one request, the few for two requests
\* in flight, where it is the interleaving that is explored.
Outcomes(all, few) == IF Cardinality(requests) > 1 THEN few ELSE all

SlitherOutcomes ==
  Outcomes(SlitherRuns, {Run("none", SlitherNoFindings), Run("exit", SlitherSuicidal)})

SolhintOutcomes == Outcomes(SolhintRuns, {Run("none", JsonOut(JArr(<<>>)))})

SummarizerOutcomes == Outcomes(SummarizerReplies, {TypeError})

CompilerOutcomes(sourceCode) == Outcomes(CompileOutcomes(sourceCode), {CompileErrors})

Throw(c, error) ==
  /\ pc' = [pc EXCEPT ![c] = "thrown"]
  /\ failure' = [failure EXCEPT ![c] = error]

\* new ContractAnalyzer() starts ensureTempDir() without awaiting it; analyzeContract
\* then runs up to its first await, the writeFile of line 26.
EnterAnalyzeContract(c, via, sourceCode, useOpenAI) ==
  /\ call' = [call EXCEPT ![c] = [via |-> via, sourceCode |-> sourceCode,
                                  useOpenAI |-> useOpenAI]]
  /\ ensureDir' = [ensureDir EXCEPT ![c] = "pending"]
  /\ pc' = [pc EXCEPT ![c] = "writeFile"]

\* POST /api/analyze: if (!sourceCode) return res.status(400)...
PostAnalyze(c) ==
  /\ pc[c] = "idle"
  /\ \E sourceCode \in SourceCodes(c), useOpenAI \in BOOLEAN :
       IF ~Truthy(sourceCode)
       THEN /\ call' = [call EXCEPT ![c] = [via |-> "route", sourceCode |-> sourceCode,
                                            useOpenAI |-> useOpenAI]]
            /\ pc' = [pc EXCEPT ![c] = "rejected"]
            /\ UNCHANGED ensureDir
       ELSE EnterAnalyzeContract(c, "route", sourceCode, useOpenAI)
  /\ UNCHANGED <<requests, openai, tempDir, contractFile, slither, solhint,
                 contractDetails, finals, summary, solc, analysis, failure, pureVars, appVars, textVars>>

\* A caller of the exported analyzeContract itself.
CallAnalyzeContract(c) ==
  /\ pc[c] = "idle"
  /\ \E sourceCode \in SourceCodes(c), useOpenAI \in BOOLEAN :
       EnterAnalyzeContract(c, "export", sourceCode, useOpenAI)
  /\ UNCHANGED <<requests, openai, tempDir, contractFile, slither, solhint,
                 contractDetails, finals, summary, solc, analysis, failure, pureVars, appVars, textVars>>

\* fs.ensureDir(this.tempDir) completes.
EnsureDirDone(c) ==
  /\ ensureDir[c] = "pending"
  /\ ensureDir' = [ensureDir EXCEPT ![c] = "done"]
  /\ tempDir' = TRUE
  /\ UNCHANGED <<requests, openai, contractFile, pc, call, slither, solhint,
                 contractDetails, finals, summary, solc, analysis, failure, pureVars, appVars, textVars>>

\* A continuation that spawns slither and awaits it before anything else starts.
StartSlitherAlone(c) ==
  /\ slither' = [slither EXCEPT ![c] = Running]
  /\ UNCHANGED <<solhint, contractDetails>>

\* Lines 28-32: the three arguments of Promise.all are evaluated one after the
\* other with no await between them: exec spawns slither, exec spawns solhint,
\* and extractContractDetails runs to its end.
StartBackends(c) ==
  /\ slither' = [slither EXCEPT ![c] = Running]
  /\ solhint' = [solhint EXCEPT ![c] = Running]
  /\ contractDetails' =
       [contractDetails EXCEPT ![c] =
          OnSource[call[c].sourceCode.s].extractContractDetails]

\* await fs.writeFile(contractFile, sourceCode) completes; on success the three
\* members of Promise.all are started: both tools are spawned and
\* extractContractDetails runs.
WriteFile(c) ==
  /\ pc[c] = "writeFile"
  /\ \E fault \in BOOLEAN :
       IF call[c].sourceCode.t # "string"
       THEN Throw(c, "ERR_INVALID_ARG_TYPE")
            /\ UNCHANGED <<contractFile, slither, solhint, contractDetails>>
       ELSE IF ~tempDir
       THEN Throw(c, "ENOENT") /\ UNCHANGED <<contractFile, slither, solhint, contractDetails>>
       ELSE IF fault
       THEN Throw(c, "EIO") /\ UNCHANGED <<contractFile, slither, solhint, contractDetails>>
       ELSE /\ contractFile' = File(call[c].sourceCode.s)
            /\ StartBackends(c)
            /\ pc' = [pc EXCEPT ![c] = "backends"]
            /\ UNCHANGED failure
  /\ UNCHANGED <<requests, openai, tempDir, call, ensureDir, finals, summary, solc,
                 analysis, pureVars, appVars, textVars>>

\* The slither process reads temp/contract.sol and ends; exec's callback resolves
\* the promise.
SlitherExit(c) ==
  /\ slither[c] = Running
  /\ \E run \in SlitherOutcomes :
     \E promise \in {runSlither(run.error, run.stdout)} :
       slither' = [slither EXCEPT ![c] =
                     [state |-> "done", read |-> contractFile, error |-> run.error,
                      stdout |-> run.stdout, settled |-> promise.settled,
                      results |-> promise.value]]
  /\ UNCHANGED <<requests, openai, tempDir, contractFile, pc, call, ensureDir, solhint,
                 contractDetails, finals, summary, solc, analysis, failure, pureVars, appVars, textVars>>

SolhintExit(c) ==
  /\ solhint[c] = Running
  /\ \E run \in SolhintOutcomes :
     \E promise \in {runSolhint(run.error, run.stdout)} :
       solhint' = [solhint EXCEPT ![c] =
                     [state |-> "done", read |-> contractFile, error |-> run.error,
                      stdout |-> run.stdout, settled |-> promise.settled,
                      results |-> promise.value]]
  /\ UNCHANGED <<requests, openai, tempDir, contractFile, pc, call, ensureDir, slither,
                 contractDetails, finals, summary, solc, analysis, failure, pureVars, appVars, textVars>>

\* A fallback that keeps the external list and adds the heuristic one to it.
FinalResultsUnion(externalResults, heuristicResults) == externalResults \o heuristicResults

\* let final = results; if (results.length === 0) final = heuristic (lines 34-45)
FinalResults(externalResults, heuristicResults) ==
  IF Len(externalResults) = 0 THEN heuristicResults ELSE externalResults

Now == "2024-01-01T00:00:00.000Z"

\* Lines 63-75: the record; generateDeploymentWarnings may raise.
Record(c, final, aiSummary, abi, deploymentWarnings) ==
  IF deploymentWarnings.threw THEN TypeError
  ELSE Return([riskScore |-> final.riskScore,
               auditGrade |-> final.auditGrade,
               tokenType |-> final.tokenType,
               bugs |-> final.finalSlitherResults,
               linting |-> final.finalSolhintResults,
               contractDetails |-> contractDetails[c],
               aiSummary |-> aiSummary,
               abi |-> abi,
               unsafePatterns |-> OnSource[call[c].sourceCode.s].detectUnsafePatterns,
               deploymentWarnings |-> deploymentWarnings.value,
               timestamp |-> Now])

\* A record whose deployment warnings are worked out from what the tools returned.
AssembleFromRaw(c, final, aiSummary, compiled) ==
  Record(c, final, aiSummary, generateABI(call[c].sourceCode.s, compiled),
         generateDeploymentWarnings(slither[c].results, solhint[c].results))

\* Lines 61-75: the ABI, then the record.
Assemble(c, final, aiSummary, compiled) ==
  Record(c, final, aiSummary, generateABI(call[c].sourceCode.s, compiled),
         generateDeploymentWarnings(final.finalSlitherResults, final.finalSolhintResults))

\* From line 61 to the await of fs.remove (line 77), or to the catch block.
Finish(c, final, aiSummary) ==
  \E compiled \in CompilerOutcomes(call[c].sourceCode.s) :
  \E record \in {Assemble(c, final, aiSummary, compiled)} :
    /\ solc' = [solc EXCEPT ![c] = compiled]
    /\ IF record.threw
       THEN Throw(c, "TypeError") /\ UNCHANGED analysis
       ELSE /\ analysis' = [analysis EXCEPT ![c] = record.value]
            /\ pc' = [pc EXCEPT ![c] = "remove"]
            /\ UNCHANGED failure

\* Lines 52-59: the await of the summarizer when it is asked for and configured,
\* otherwise straight on to line 61.
Summarize(c, final) ==
  /\ finals' = [finals EXCEPT ![c] = final]
  /\ IF call[c].useOpenAI /\ openai
     THEN /\ summary' = [summary EXCEPT ![c] =
               [state |-> "pending",
                request |-> SummaryRequest(call[c].sourceCode.s, slither[c].results,
                                           solhint[c].results)]]
          /\ pc' = [pc EXCEPT ![c] = "summary"]
          /\ UNCHANGED <<solc, analysis, failure>>
     ELSE Finish(c, final, JNull) /\ UNCHANGED summary

\* The catch block after a TypeError of lines 47-48.
ScoringFailed(c) ==
  Throw(c, "TypeError") /\ UNCHANGED <<finals, summary, solc, analysis>>

\* A function that sends the source to the summarizer as soon as the backends are
\* started, without waiting for them.
EagerSummary(c) ==
  /\ pc[c] = "backends"
  /\ summary[c] = None
  /\ call[c].useOpenAI /\ openai
  /\ summary' = [summary EXCEPT ![c] =
                   [state |-> "pending",
                    request |-> SummaryRequest(call[c].sourceCode.s, <<>>, <<>>)]]
  /\ UNCHANGED <<requests, openai, tempDir, contractFile, pc, call, ensureDir, slither,
                 solhint, contractDetails, finals, solc, analysis, failure, pureVars,
                 appVars, textVars>>

\* Promise.all has resolved: lines 34-59, then either the await of the summarizer
\* or the rest of the function up to the await of fs.remove.  Each value is worked
\* out once, in the order of the source: the final lists (lines 34-45), the score
\* (line 47), the grade (line 48) and the token type (line 49).
Aggregate(c) ==
  /\ pc[c] = "backends"
  /\ slither[c].state = "done"
  /\ solhint[c].state = "done"
  /\ \E onSource \in {OnSource[call[c].sourceCode.s]} :
     \E finalSlitherResults \in
          {FinalResults(slither[c].results, onSource.detectManualVulnerabilities)} :
     \E finalSolhintResults \in
          {FinalResults(solhint[c].results, onSource.detectBasicLintingIssues)} :
     \E score \in {computeRiskScore(finalSlitherResults, finalSolhintResults)} :
       IF score.threw THEN ScoringFailed(c)
       ELSE \E grade \in {computeAuditGrade(score.value, finalSlitherResults,
                                             finalSolhintResults)} :
              IF grade.threw THEN ScoringFailed(c)
              ELSE Summarize(c, [state |-> "done",
                                 finalSlitherResults |-> finalSlitherResults,
                                 finalSolhintResults |-> finalSolhintResults,
                                 riskScore |-> score.value, auditGrade |-> grade.value,
                                 tokenType |-> onSource.detectTokenType])
  /\ UNCHANGED <<requests, openai, tempDir, contractFile, call, ensureDir, slither,
                 solhint, contractDetails, pureVars, appVars, textVars>>

\* The summarizer answers; generateAISummary returns and the function goes on.
SummaryDone(c) ==
  /\ pc[c] = "summary"
  /\ \E reply \in SummarizerOutcomes :
     \E aiSummary \in {generateAISummary(reply)} :
       /\ summary' = [summary EXCEPT ![c] =
                        [state |-> "done", request |-> summary[c].request,
                         reply |-> reply, aiSummary |-> aiSummary]]
       /\ Finish(c, finals[c], aiSummary)
  /\ UNCHANGED <<requests, openai, tempDir, contractFile, call, ensureDir, slither,
                 solhint, contractDetails, finals, pureVars, appVars, textVars>>

\* await fs.remove(contractFile) completes; the record is returned.
RemoveDone(c) ==
  /\ pc[c] = "remove"
  /\ \E fault \in BOOLEAN :
       IF fault THEN Throw(c, "EIO") /\ UNCHANGED contractFile
       ELSE /\ contractFile' = NoFile
            /\ pc' = [pc EXCEPT ![c] = "returned"]
            /\ UNCHANGED failure
  /\ UNCHANGED <<requests, openai, tempDir, call, ensureDir, slither, solhint,
                 contractDetails, finals, summary, solc, analysis, pureVars, appVars, textVars>>

Next ==
  \E c \in requests :
    \/ PostAnalyze(c)
    \/ CallAnalyzeContract(c)
    \/ EnsureDirDone(c)
    \/ WriteFile(c)
    \/ SlitherExit(c)
    \/ SolhintExit(c)
    \/ Aggregate(c)
    \/ SummaryDone(c)
    \/ RemoveDone(c)

\* One analysis request.
Init == InitPipeline({1}) /\ InitPure /\ InitApp /\ InitText
Spec == Init /\ [][Next]_vars

\* Two analysis requests in flight at once, in a process that has its summarizer
\* client and its temp directory.
InitPar == InitPipeline({1, 2}) /\ openai /\ tempDir /\ InitPure /\ InitApp /\ InitText
SpecPar == InitPar /\ [][Next]_vars

(***************************************************************************)
(* computeRiskScore alone: the two lists grow by one push at a time, and   *)
(* the score of every list reached is worked out.                          *)
(***************************************************************************)
\* How many times a security diagnostic, and a style diagnostic, is pushed; a push
\* of a security diagnostic appends it once or MaxCopies times.
MaxSecurity == 2
MaxStyle == 2
MaxCopies == 5

\* The severities a list can carry: the four (two) the scorer knows, one it does
\* not know, a missing one, and a numeric code as ESLint-style reports carry.
SecuritySeverities ==
  {JStr("High"), JStr("Medium"), JStr("Low"), JStr("Informational"), JStr("Critical"),
   JUndef, JNum(2)}

StyleSeverities == {JStr("Error"), JStr("Warning"), JStr("Info"), JNull, JNum(2)}

SecurityDiagnostic(name, severity) == [name |-> name, severity |-> severity]
StyleDiagnostic(rule, severity) == [rule |-> rule, severity |-> severity]

InitIdle == InitPipeline({}) /\ openai /\ tempDir /\ InitApp /\ InitText

InitScore ==
  /\ InitIdle
  /\ diagnostics = [slitherResults |-> <<>>, solhintResults |-> <<>>, pushes |-> 0]
  /\ riskScore = computeRiskScore(<<>>, <<>>)
  /\ auditGrade = Return("A")
  /\ inventory = NoInventory

\* computeRiskScore(slitherResults, solhintResults) on the lists after a push.
Scored(slitherResults, solhintResults, pushes) ==
  /\ diagnostics' = [slitherResults |-> slitherResults, solhintResults |-> solhintResults,
                     pushes |-> pushes]
  /\ riskScore' = computeRiskScore(slitherResults, solhintResults)
  /\ UNCHANGED <<auditGrade, inventory, pipelineVars, appVars, textVars>>

PushSecurity ==
  /\ diagnostics.pushes < MaxSecurity
  /\ \E severity \in SecuritySeverities, copies \in {1, MaxCopies} :
       Scored(diagnostics.slitherResults
                \o [i \in 1..copies |-> SecurityDiagnostic(JStr("reentrancy-eth"), severity)],
              diagnostics.solhintResults, diagnostics.pushes + 1)

PushStyle ==
  /\ Len(diagnostics.solhintResults) < MaxStyle
  /\ \E severity \in StyleSeverities :
       Scored(diagnostics.slitherResults,
              Append(diagnostics.solhintResults,
                     StyleDiagnostic(JStr("max-line-length"), severity)),
              diagnostics.pushes)

NextScore == PushSecurity \/ PushStyle

SpecScore == InitScore /\ [][NextScore]_vars

(***************************************************************************)
(* computeAuditGrade alone: a score, and lists that grow by one name at a  *)
(* time; the grade of every score and list reached is worked out.          *)
(***************************************************************************)
MaxNames == 2
MaxStyleNames == 1
MaxScore == 100

\* The names a security diagnostic can carry: one for each marker, in mixed case,
\* names without a marker, and a missing name.
DiagnosticNames ==
  {JStr("Proxy"), JStr("UPGRADEABLE"), JStr("mint"), JStr("Unrestricted"),
   JStr("suicide"), JStr("SelfDestruct"), JStr("reentrancy-eth"), JUndef}

InitGrade ==
  /\ InitIdle
  /\ diagnostics = [slitherResults |-> <<>>, solhintResults |-> <<>>, pushes |-> 0]
  /\ inventory = NoInventory
  /\ \E score \in 0..MaxScore :
       /\ riskScore = Return(score)
       /\ auditGrade = computeAuditGrade(score, <<>>, <<>>)

\* computeAuditGrade(riskScore, slitherResults, solhintResults) on the lists after a
\* push.
Graded(slitherResults, solhintResults) ==
  /\ diagnostics' = [slitherResults |-> slitherResults, solhintResults |-> solhintResults,
                     pushes |-> diagnostics.pushes + 1]
  /\ auditGrade' = computeAuditGrade(riskScore.value, slitherResults, solhintResults)
  /\ UNCHANGED <<riskScore, inventory, pipelineVars, appVars, textVars>>

PushName ==
  /\ Len(diagnostics.slitherResults) < MaxNames
  /\ \E name \in DiagnosticNames :
       Graded(Append(diagnostics.slitherResults, SecurityDiagnostic(name, JStr("Low"))),
              diagnostics.solhintResults)

\* A style diagnostic whose rule, and whose name, is a marker.
PushStyleName ==
  /\ Len(diagnostics.solhintResults) < MaxStyleNames
  /\ Graded(diagnostics.slitherResults,
            Append(diagnostics.solhintResults,
                   [rule |-> JStr("avoid-suicide"), name |-> JStr("selfdestruct"),
                    severity |-> JStr("Warning")]))

NextGrade == PushName \/ PushStyleName

SpecGrade == InitGrade /\ [][NextGrade]_vars

(***************************************************************************)
(* extractContractDetails alone (analyzer.js 186-233): analyzers of the    *)
(* process are asked for the inventory of a text, in any order.  The five  *)
(* regular expressions are literals of the function body, so every call    *)
(* starts each of them afresh (lastIndex 0), and no field of the analyzer  *)
(* is read.                                                                *)
(***************************************************************************)
\* How many times the inventory of one text is asked for.
MaxCalls == 2

\* The exported analyzer (line 742) and one more instance of the class.
Analyzers == {1, 2}

InitExtract ==
  /\ InitIdle
  /\ diagnostics = [slitherResults |-> <<>>, solhintResults |-> <<>>, pushes |-> 0]
  /\ riskScore = Return(0)
  /\ auditGrade = Return("A")
  /\ inventory = NoInventory

\* How many calls were made on the text.
CallsOn(text) == IF inventory[text] = None THEN 0 ELSE inventory[text].calls

\* analyzer.extractContractDetails(text)
Extract(text, analyzer) ==
  /\ CallsOn(text) < MaxCalls
  /\ inventory' = [inventory EXCEPT ![text] =
                     [state |-> "done", calls |-> CallsOn(text) + 1, analyzer |-> analyzer,
                      details |-> OnSource[text].extractContractDetails]]
  /\ UNCHANGED <<diagnostics, riskScore, auditGrade, pipelineVars, appVars, textVars>>

NextExtract == \E text \in SourceTexts, analyzer \in Analyzers : Extract(text, analyzer)

SpecExtract == InitExtract /\ [][NextExtract]_vars

(***************************************************************************)
(* The App component (frontend, lines 173-376): the wallet, the payment    *)
(* and the analysis handlers.  A handler runs to its next await in one     *)
(* step; the calls of a handler are told apart by a number.                *)
(***************************************************************************)
\* What the user can have typed into the two inputs.
SourceInputs == {"", "  ", "contract C {}"}
AddressInputs == {"", "0xb48A"}

Account == JStr("0x1234")

\* A handler is waiting for the wallet or for the chain.
Failable(stage) == stage \in {"accounts", "network", "signer", "fee", "send", "wait"}

\* connectWallet up to await provider.send("eth_requestAccounts") (lines 192-198);
\* without window.ethereum only a toast is shown (lines 217-219).
ConnectWallet(k) ==
  /\ wallet[k] = "idle"
  /\ \E ethereum \in BOOLEAN :
       wallet' = [wallet EXCEPT ![k] = IF ethereum THEN "accounts" ELSE "done"]
  /\ UNCHANGED <<account, sessionPaid, isLoading, page, payment, posted>>

\* The accounts are granted; await provider.getNetwork() (line 202).
AccountsGranted(k) ==
  /\ wallet[k] = "accounts"
  /\ wallet' = [wallet EXCEPT ![k] = "network"]
  /\ UNCHANGED <<account, sessionPaid, isLoading, page, payment, posted>>

\* The network is known, and switched to where needed (switchToAvalancheFuji
\* catches its own errors): lines 203-216, with setSessionPaid(false).
WalletConnected(k) ==
  /\ wallet[k] = "network"
  /\ wallet' = [wallet EXCEPT ![k] = "done"]
  /\ account' = Account
  /\ sessionPaid' = FALSE
  /\ UNCHANGED <<isLoading, page, payment, posted>>

\* An await of connectWallet rejects: the catch block of lines 220-223.
ConnectFailed(k) ==
  /\ wallet[k] \in {"accounts", "network"}
  /\ wallet' = [wallet EXCEPT ![k] = "failed"]
  /\ UNCHANGED <<account, sessionPaid, isLoading, page, payment, posted>>

\* payForAnalysis up to await provider.getSigner() (lines 247-256).
PayForAnalysis(k) ==
  /\ payment[k] = "idle"
  /\ IF ~Truthy(account)
     THEN payment' = [payment EXCEPT ![k] = "refused"] /\ UNCHANGED isLoading
     ELSE payment' = [payment EXCEPT ![k] = "signer"] /\ isLoading' = TRUE
  /\ UNCHANGED <<account, sessionPaid, page, wallet, posted>>

\* The await that follows each stage of the payment: getSigner, FEE,
\* payToAnalyze, tx.wait (lines 256-264).
NextStage == [signer |-> "fee", fee |-> "send", send |-> "wait"]

PaymentProceeds(k) ==
  /\ payment[k] \in DOMAIN NextStage
  /\ payment' = [payment EXCEPT ![k] = NextStage[payment[k]]]
  /\ UNCHANGED <<account, sessionPaid, isLoading, page, wallet, posted>>

\* tx.wait() resolves: setSessionPaid(true), then the finally block (lines 264-274).
PaymentConfirmed(k) ==
  /\ payment[k] = "wait"
  /\ payment' = [payment EXCEPT ![k] = "done"]
  /\ sessionPaid' = TRUE
  /\ isLoading' = FALSE
  /\ UNCHANGED <<account, page, wallet, posted>>

\* An await of payForAnalysis rejects: the catch and finally blocks (lines 269-274).
PaymentFailed(k) ==
  /\ Failable(payment[k])
  /\ payment' = [payment EXCEPT ![k] = "failed"]
  /\ isLoading' = FALSE
  /\ UNCHANGED <<account, sessionPaid, page, wallet, posted>>

\* An open session that asks for no payment.
NeverLocked(paid) == FALSE

\* if (!sessionPaid) of analyzeContract (line 279)
Locked(paid) == ~paid

\* The request analyzeContract sends (lines 298-308), with the sessionPaid it was
\* sent under.
Post(url, body) == [url |-> url, body |-> body, sessionPaid |-> sessionPaid, state |-> "sent"]

\* analyzeContract of the App (lines 278-308): the three checks, then the request.
AppAnalyzeContract ==
  /\ Len(posted) < MaxPosts
  /\ ~Locked(sessionPaid)
  /\ ~(page.analysisMode = "code" /\ trim(page.sourceCode) = "")
  /\ ~(page.analysisMode = "address" /\ trim(page.contractAddress) = "")
  /\ isLoading' = TRUE
  /\ posted' = Append(posted,
                      IF page.analysisMode = "code"
                      THEN Post("/api/analyze", trim(page.sourceCode))
                      ELSE Post("/api/analyze-address", trim(page.contractAddress)))
  /\ UNCHANGED <<account, sessionPaid, page, wallet, payment>>

\* The response arrives (lines 310-311) or the request fails (lines 313-315); then
\* the finally block (line 317).
AnalysisAnswered(i) ==
  /\ i \in DOMAIN posted
  /\ posted[i].state = "sent"
  /\ \E ok \in BOOLEAN :
       /\ posted' = [posted EXCEPT ![i].state = IF ok THEN "answered" ELSE "failed"]
       /\ page' = IF ok THEN [page EXCEPT !.analysis = JStr(posted[i].body)] ELSE page
  /\ isLoading' = FALSE
  /\ UNCHANGED <<account, sessionPaid, wallet, payment>>

\* resetSession (lines 370-376)
resetSession ==
  /\ sessionPaid' = FALSE
  /\ page' = [page EXCEPT !.analysis = JNull, !.sourceCode = "", !.contractAddress = ""]
  /\ UNCHANGED <<account, isLoading, wallet, payment, posted>>

\* The mode buttons and the two inputs (lines 542, 549, 562, 570).
setAnalysisMode ==
  /\ \E mode \in {"code", "address"} : page' = [page EXCEPT !.analysisMode = mode]
  /\ UNCHANGED <<account, sessionPaid, isLoading, wallet, payment, posted>>

setSourceCode ==
  /\ \E text \in SourceInputs : page' = [page EXCEPT !.sourceCode = text]
  /\ UNCHANGED <<account, sessionPaid, isLoading, wallet, payment, posted>>

setContractAddress ==
  /\ \E text \in AddressInputs : page' = [page EXCEPT !.contractAddress = text]
  /\ UNCHANGED <<account, sessionPaid, isLoading, wallet, payment, posted>>

NextApp ==
  /\ \/ \E k \in 1..MaxConnects :
          ConnectWallet(k) \/ AccountsGranted(k) \/ WalletConnected(k) \/ ConnectFailed(k)
     \/ \E k \in 1..MaxPayments :
          PayForAnalysis(k) \/ PaymentProceeds(k) \/ PaymentConfirmed(k) \/ PaymentFailed(k)
     \/ AppAnalyzeContract
     \/ \E i \in 1..MaxPosts : AnalysisAnswered(i)
     \/ resetSession
     \/ setAnalysisMode
     \/ setSourceCode
     \/ setContractAddress
  /\ UNCHANGED <<pipelineVars, pureVars, textVars>>

InitAppAlone == InitPipeline({}) /\ openai /\ tempDir /\ InitPure /\ InitApp /\ InitText

SpecApp == InitAppAlone /\ [][NextApp]_vars

(***************************************************************************)
(* A heuristic of the source text alone: the text grows by one piece at a  *)
(* time and the heuristic is applied to each text.                         *)
(***************************************************************************)
InitDraft == InitPipeline({}) /\ openai /\ tempDir /\ InitPure /\ InitApp /\ InitText

\* The pieces joined by the separator.
RECURSIVE Join(_, _)
Join(pieces, separator) ==
  IF pieces = <<>> THEN ""
  ELSE IF Len(pieces) = 1 THEN pieces[1]
  ELSE Join(SubSeq(pieces, 1, Len(pieces) - 1), separator) \o separator
       \o pieces[Len(pieces)]

\* The text after one more piece.
Extended(piece, separator) ==
  [pieces |-> Append(draft.pieces, piece),
   text |-> Join(Append(draft.pieces, piece), separator)]

\* detectManualVulnerabilities alone.  The words a text is made of: the words the
\* eight rules look for, in the letter case sources write them in.
MaxWords == 3

ManualWords ==
  {"call", "EXTERNAL", "ReentrancyGuard", "require", "assert", "uint",
   "pragma solidity ^0.8", "pragma solidity 0.8", "delegatecall", "tx.origin",
   "block.timestamp", "function", "modifier", "onlyOwner", "selfdestruct", "suicide"}

Detect(word) ==
  /\ Len(draft.pieces) < MaxWords
  /\ \E next \in {Extended(word, " ")} :
       /\ draft' = next
       /\ found' = [state |-> "done", sourceCode |-> next.text,
                    vulnerabilities |-> detectManualVulnerabilities(next.text)]
  /\ UNCHANGED <<pipelineVars, pureVars, appVars>>

NextManual == \E word \in ManualWords : Detect(word)

SpecManual == InitDraft /\ [][NextManual]_vars

\* detectBasicLintingIssues alone.  The lines a text is made of: empty, blank,
\* short, with the license marker, of 120 columns, of 121 columns, of 122 columns
\* four of which are indentation, and with trailing white space.
MaxLines == 3

LintInputLines ==
  {"", "  ", "\t", "uint x;", "// SPDX-License-Identifier: MIT", Repeat("x", 120),
   Repeat("x", 121), "    " \o Repeat("x", 118), "uint y; "}

Lint(line) ==
  /\ Len(draft.pieces) < MaxLines
  /\ \E next \in {Extended(line, "\n")} :
       /\ draft' = next
       /\ found' = [state |-> "done", sourceCode |-> next.text,
                    issues |-> detectBasicLintingIssues(next.text)]
  /\ UNCHANGED <<pipelineVars, pureVars, appVars>>

NextLint == \E line \in LintInputLines : Lint(line)

SpecLint == InitDraft /\ [][NextLint]_vars

\* generateManualABI alone.  The declarations a text is made of, one to a line;
\* each function name is declared by one of them only.
MaxDeclarations == 3

Declarations ==
  {"function helper() internal {}", "function ping() public view returns (bool) {}",
   "constructor() {}", "function constructor() public {}",
   "function audit(uint n) internal pure returns (uint) {}",
   "function pay(address to) external payable {}"}

Declare(declaration) ==
  /\ Len(draft.pieces) < MaxDeclarations
  /\ \E next \in {Extended(declaration, "\n")} :
       /\ draft' = next
       /\ found' = [state |-> "done", sourceCode |-> next.text,
                    abi |-> generateManualABI(next.text)]
  /\ UNCHANGED <<pipelineVars, pureVars, appVars>>

NextAbi == \E declaration \in Declarations : Declare(declaration)

SpecAbi == InitDraft /\ [][NextAbi]_vars

(***************************************************************************)
(* Properties                                                              *)
(***************************************************************************)
\* The request has its record (line 63 has run).
HasRecord(c) == analysis[c] # None

\* The call has ended: it returned its record or threw.
Ended(c) == pc[c] \in {"returned", "thrown"}

\* No element of list is an element of other.
Disjoint(list, other) ==
  \A i \in DOMAIN list : \A j \in DOMAIN other : list[i] # other[j]

\* What the record must carry for a category: the external list when it is not
\* empty, the heuristic list otherwise, and never both.
ExternalElseHeuristic(recorded, externalResults, heuristicResults) ==
  IF externalResults # <<>>
  THEN recorded = externalResults /\ Disjoint(recorded, heuristicResults)
  ELSE recorded = heuristicResults

\* C1: for each category the record's list is exactly the external backend's list
\* when that list is not empty, with no heuristic diagnostic in it, and exactly the
\* heuristic's output on the same source when the external list is empty.
C1_ExternalElseHeuristic ==
  \A c \in requests :
    HasRecord(c) =>
      /\ ExternalElseHeuristic(analysis[c].bugs, slither[c].results,
                               OnSource[call[c].sourceCode.s].detectManualVulnerabilities)
      /\ ExternalElseHeuristic(analysis[c].linting, solhint[c].results,
                               OnSource[call[c].sourceCode.s].detectBasicLintingIssues)

\* A record whose security list is the external one, although the heuristic finds
\* something on the source, and whose style list is the heuristic one.
C1_Witness ==
  \E c \in requests :
    /\ HasRecord(c)
    /\ slither[c].results # <<>>
    /\ OnSource[call[c].sourceCode.s].detectManualVulnerabilities # <<>>
    /\ analysis[c].bugs = slither[c].results
    /\ solhint[c].results = <<>>
    /\ analysis[c].linting # <<>>

\* C2: for every pair of diagnostic lists, whatever the severities (missing and
\* unrecognized ones included), computeRiskScore returns an integer from 0 to 100.
C2_ScoreInRange == ~riskScore.threw /\ riskScore.value \in 0..100

\* The weights of the scoring contract.
SecurityWeight(severity) ==
  IF severity = JStr("High") THEN 25
  ELSE IF severity = JStr("Medium") THEN 15
  ELSE IF severity = JStr("Low") THEN 5
  ELSE IF severity = JStr("Informational") THEN 1
  ELSE 0

StyleWeight(severity) ==
  IF severity = JStr("Error") THEN 3 ELSE IF severity = JStr("Warning") THEN 1 ELSE 0

RECURSIVE Sum(_, _)
Sum(weights, i) == IF i > Len(weights) THEN 0 ELSE weights[i] + Sum(weights, i + 1)

\* C3: computeRiskScore is min(100, S), S the sum of 25, 15, 5 and 1 for the High,
\* Medium, Low and Informational security diagnostics plus 3 and 1 for the Error and
\* Warning style diagnostics, any other or missing severity counting 0.
C3_ScoreIsClampedSum ==
  /\ ~riskScore.threw
  /\ riskScore.value = Min(100, Sum(MapSeq(diagnostics.slitherResults,
                                             LAMBDA bug : SecurityWeight(bug.severity)), 1)
                                  + Sum(MapSeq(diagnostics.solhintResults,
                                               LAMBDA issue : StyleWeight(issue.severity)), 1))

\* The escalation markers, and the lists in which a name carries one.
Markers == {"proxy", "upgradeable", "mint", "unrestricted", "suicide", "selfdestruct"}

Marked(diagnostic) ==
  /\ diagnostic.name.t = "string"
  /\ \E marker \in Markers : includes(toLowerCase(diagnostic.name.s), marker)

SomeMarked(list) == \E i \in DOMAIN list : Marked(list[i])

\* C4: a score above 70 gives C whatever the diagnostics; with no marker in any
\* security name the grade is C exactly for a score above 70, B exactly for a score
\* above 40 and up to 70, and A exactly for a score up to 40.
C4_GradeByScore ==
  /\ riskScore.value > 70 => auditGrade = Return("C")
  /\ ~SomeMarked(diagnostics.slitherResults) =>
       /\ auditGrade = Return("C") <=> riskScore.value > 70
       /\ auditGrade = Return("B") <=> (riskScore.value > 40 /\ riskScore.value <= 70)
       /\ auditGrade = Return("A") <=> riskScore.value <= 40

\* The score 70 with a security diagnostic that carries no marker: graded B.
C4_Witness ==
  /\ riskScore = Return(70)
  /\ diagnostics.slitherResults # <<>>
  /\ ~SomeMarked(diagnostics.slitherResults)
  /\ auditGrade = Return("B")

\* C5: a marker in the name of any security diagnostic, in any case, gives C for
\* every score; a marker carried by a style diagnostic alone does not.
C5_MarkerForcesC ==
  /\ SomeMarked(diagnostics.slitherResults) => auditGrade = Return("C")
  /\ (/\ SomeMarked(diagnostics.solhintResults)
      /\ ~SomeMarked(diagnostics.slitherResults)
      /\ riskScore.value <= 70) => auditGrade # Return("C")

\* The score 0 with an upper-case marker behind a name without one: graded C.
C5_Witness ==
  /\ riskScore = Return(0)
  /\ Len(diagnostics.slitherResults) = 2
  /\ diagnostics.slitherResults[1].name = JStr("reentrancy-eth")
  /\ diagnostics.slitherResults[2].name = JStr("UPGRADEABLE")
  /\ auditGrade = Return("C")

\* The input texts with a selfdestruct(...) call.
SelfDestructSources == {text \in SourceTexts : includes(text, "selfdestruct(")}

\* C6: the record of a source with a selfdestruct(...) call has a kill-switch entry
\* in unsafePatterns and the grade C, whatever the external security backend found.
C6_KillSwitchForcesC ==
  \A c \in requests :
    (HasRecord(c) /\ call[c].sourceCode.s \in SelfDestructSources) =>
      /\ \E i \in DOMAIN analysis[c].unsafePatterns :
           includes(analysis[c].unsafePatterns[i], "Kill Switch")
      /\ analysis[c].auditGrade = "C"

\* The temp file of the request was written (the backends were started on it).
Written(c) == slither[c] # Idle

\* C7: when a call that wrote the temp file has ended, by a return or by a throw of
\* any step after the write, the temp file is gone (short of a fault of the removal
\* itself).
C7_TempFileRemoved ==
  \A c \in requests :
    (Ended(c) /\ Written(c) /\ failure[c] # "EIO") => contractFile = NoFile

\* The errors writeFile and remove raise.
FileFaults == {"EIO", "ENOENT", "ERR_INVALID_ARG_TYPE"}

RecordFields ==
  {"riskScore", "auditGrade", "tokenType", "bugs", "linting", "contractDetails", "abi",
   "unsafePatterns", "deploymentWarnings", "timestamp"}

\* C8: analyzeContract throws only when the write or the removal of the temp file
\* fails, whatever the backends and the compiler do; a returned record has every
\* field.
C8_ThrowsOnlyOnFileFaults ==
  \A c \in requests :
    /\ pc[c] = "thrown" => failure[c] \in FileFaults
    /\ pc[c] = "returned" => RecordFields \subseteq DOMAIN analysis[c]

\* C9: for an empty or missing source text, through the route or the exported
\* analyzeContract, no temp file is created, no backend is started and no
\* extraction runs.
C9_EmptySourceRejected ==
  \A c \in requests :
    (call[c] # None /\ ~Truthy(call[c].sourceCode)) =>
      /\ contractFile = NoFile
      /\ slither[c] = Idle
      /\ solhint[c] = Idle
      /\ contractDetails[c] = None

\* The temp file holds the source text of the request.
OwnFile(c) == File(call[c].sourceCode.s)

\* C10: with two calls in flight on different texts, the temp file holds a call's
\* own text for as long as one of its backends runs, and each backend has read
\* exactly the text of its own call.
C10_BackendsReadOwnSource ==
  \A c \in requests :
    /\ (slither[c] = Running \/ solhint[c] = Running) => contractFile = OwnFile(c)
    /\ slither[c].state = "done" => slither[c].read = OwnFile(c)
    /\ solhint[c].state = "done" => solhint[c].read = OwnFile(c)

\* The summarizer was called for the request.
Summarized(c) == summary[c] # None

\* C11: the summarizer is called only for a caller who enabled it in a process
\* that has a client; the record carries the text of a completion as it came, and
\* null when the summarizer was not called, rejected the request or answered
\* without a choice; and a call does not throw because the summarizer failed: when
\* it throws after the summarizer answered, it is the record itself that raised.
C11_SummaryOptional ==
  \A c \in requests :
    /\ Summarized(c) => (call[c].useOpenAI /\ openai)
    /\ (HasRecord(c) /\ ~Summarized(c)) => analysis[c].aiSummary = JNull
    /\ (HasRecord(c) /\ Summarized(c)) =>
         analysis[c].aiSummary =
           (IF summary[c].reply = Completion(SummaryText) THEN JStr(SummaryText) ELSE JNull)
    /\ (Summarized(c) /\ summary[c].state = "done" /\ ~HasRecord(c)) =>
         generateDeploymentWarnings(finals[c].finalSlitherResults,
                                    finals[c].finalSolhintResults).threw

\* A returned record with null for its summary after the summarizer rejected the
\* request.
C11_Witness ==
  \E c \in requests :
    /\ pc[c] = "returned"
    /\ Summarized(c)
    /\ summary[c].reply = TypeError
    /\ analysis[c].aiSummary = JNull

\* The security diagnostics of the record that carry this name, severity, function
\* and line.
Findings(c, name, severity, function, line) ==
  {i \in DOMAIN analysis[c].bugs :
     /\ analysis[c].bugs[i].name = JStr(name)
     /\ analysis[c].bugs[i].severity = JStr(severity)
     /\ analysis[c].bugs[i].function = JStr(function)
     /\ analysis[c].bugs[i].line = JNum(line)}

\* C12: for the withdraw source (an external function making a low-level call, no
\* reentrancy guard), when the external security backend yields nothing, the record
\* has a security diagnostic named "reentrancy-pattern" of severity High, function
\* "Multiple" and line 1.
C12_ReentrancyPattern ==
  \A c \in requests :
    (HasRecord(c) /\ call[c].sourceCode.s = SourceWithdraw /\ slither[c].results = <<>>) =>
      Findings(c, "reentrancy-pattern", "High", "Multiple", 1) # {}

\* The names of the function entries of an ABI.
FunctionNames(abi) ==
  {abi.items[i].name : i \in {j \in DOMAIN abi.items : abi.items[j].type = "function"}}

\* The compiler outcomes that are failures: solc throws, the output has no
\* contracts map, the map has no entry for the unit, the entry is empty.
CompileFailures == {CompileThrows, CompileErrors, CompileNoUnit, CompileEmptyUnit}

\* The manual ABI of the source text of the request.
ManualAbi(c) == JArr(OnSource[call[c].sourceCode.s].generateManualABI)

IsList(list) == DOMAIN list = 1..Len(list)

\* C14: generateABI does not throw: once the compiler has answered, a call that has
\* no record failed in building the record, not in generateABI; on each of the four
\* compiler failures the ABI of the record is the result of generateManualABI on
\* the same source; and generateManualABI returns a list for every source.
C14_AbiFallsBackToManual ==
  /\ \A text \in SourceTexts : IsList(OnSource[text].generateManualABI)
  /\ \A c \in requests :
       solc[c] # None =>
         /\ ~HasRecord(c) =>
              generateDeploymentWarnings(finals[c].finalSlitherResults,
                                         finals[c].finalSolhintResults).threw
         /\ HasRecord(c) =>
              /\ analysis[c].abi.t = "array"
              /\ IsList(analysis[c].abi.items)
              /\ solc[c] \in CompileFailures => analysis[c].abi = ManualAbi(c)

\* A record whose ABI is the manual one, not empty, after the compiler returned an
\* entry without content for the unit.
C14_Witness ==
  \E c \in requests :
    /\ HasRecord(c)
    /\ solc[c] = CompileEmptyUnit
    /\ analysis[c].abi = ManualAbi(c)
    /\ analysis[c].abi.items # <<>>

InventoryFields == {"functions", "modifiers", "stateVariables", "events", "imports"}

\* An inventory was returned: a record of the five sequences.
IsInventory(details) ==
  /\ DOMAIN details = InventoryFields
  /\ \A field \in InventoryFields : IsList(details[field])

C16_ScoreMonotone ==
  [][(~riskScore.threw /\ ~riskScore'.threw) => riskScore'.value >= riskScore.value]_vars

\* The score held at 100 by the clamp while both lists grew.
C16_Witness ==
  /\ riskScore = Return(100)
  /\ Len(diagnostics.slitherResults) > 5
  /\ Len(diagnostics.solhintResults) = 2

\* C17: when the source compiles, the function names of the compiler's ABI (the ABI
\* of the record) are the function names of the manual ABI of the same source.
C17_AbiNamesAgree ==
  \A c \in requests :
    (HasRecord(c) /\ solc[c] \notin CompileFailures) =>
      FunctionNames(analysis[c].abi) = FunctionNames(ManualAbi(c))

Settled(tool) == tool.state = "done"

\* The output was no JSON of the expected shape: blank, unparsable, or odd.
OddOutput(tool, oddShapes) ==
  \/ "doc" \notin DOMAIN tool.stdout
  \/ tool.stdout \in oddShapes

\* C19: whatever the subprocess error (none, tool absent, non-zero exit, timeout)
\* and whatever stdout holds (nothing, white space, unparsable text, JSON of an
\* unexpected shape), the promise of runSlither and of runSolhint is resolved, never
\* rejected, and resolved with a list: the empty one when the output was no JSON
\* of the expected shape.
C19_ToolsAlwaysResolve ==
  \A c \in requests :
    /\ Settled(slither[c]) =>
         /\ slither[c].settled = "resolved"
         /\ IsList(slither[c].results)
         /\ OddOutput(slither[c], SlitherOddShapes) => slither[c].results = <<>>
    /\ Settled(solhint[c]) =>
         /\ solhint[c].settled = "resolved"
         /\ IsList(solhint[c].results)
         /\ OddOutput(solhint[c], SolhintOddShapes) => solhint[c].results = <<>>

\* Slither timed out leaving half a document and solhint printed an array that
\* holds null: both promises resolved with the empty list.
C19_Witness ==
  \E c \in requests :
    /\ Settled(slither[c])
    /\ slither[c].error = "timeout"
    /\ slither[c].stdout.text # ""
    /\ slither[c].results = <<>>
    /\ Settled(solhint[c])
    /\ solhint[c].stdout = JsonOut(JArr(<<JNull>>))
    /\ solhint[c].results = <<>>

\* C20: when the subprocess of a tool ended with a timeout or a non-zero exit,
\* the promise of runSlither, and of runSolhint, is resolved with the empty list
\* whatever the tool wrote to stdout.
C20_FailedRunGivesEmpty ==
  \A c \in requests :
    /\ (Settled(slither[c]) /\ slither[c].error \in {"timeout", "exit"}) =>
         slither[c].results = <<>>
    /\ (Settled(solhint[c]) /\ solhint[c].error \in {"timeout", "exit"}) =>
         solhint[c].results = <<>>

\* The fallback decision of lines 34-45 has been taken for the request.
Decided(c) == finals[c] # None \/ pc[c] \in {"summary", "remove", "returned"}

\* C21: a backend of a request is started only in the step in which the write of
\* that request's source to the temp file has completed, and both backends are
\* started in that same step, before either is awaited; the fallback decision is
\* taken, and the function goes past Promise.all, only when both backends have
\* ended.
C21_WriteStartAwaitOrder ==
  /\ [](\A c \in requests :
          /\ (slither[c] # Idle \/ solhint[c] # Idle) =>
               (slither[c] # Idle /\ solhint[c] # Idle /\ contractDetails[c] # None)
          /\ Decided(c) => (Settled(slither[c]) /\ Settled(solhint[c])))
  /\ [][\A c \in requests :
          /\ ((slither[c] = Idle /\ slither'[c] # Idle)
              \/ (solhint[c] = Idle /\ solhint'[c] # Idle)) =>
               /\ pc[c] = "writeFile"
               /\ contractFile' = File(call[c].sourceCode.s)
               /\ slither'[c] = Running
               /\ solhint'[c] = Running
          /\ (pc[c] = "backends" /\ pc'[c] # "backends") =>
               (Settled(slither[c]) /\ Settled(solhint[c]))]_vars

\* The request has its final lists, taken while its own source was in the temp
\* file: the external security list was empty and was replaced, the external
\* style list was kept.
C21_Witness ==
  \E c \in requests :
    /\ Decided(c)
    /\ finals[c] # None
    /\ slither[c].results = <<>>
    /\ finals[c].finalSlitherResults # <<>>
    /\ solhint[c].results # <<>>
    /\ contractFile = File(call[c].sourceCode.s)

\* C22: the summarizer is called only when the summary was asked for and
\* both runSlither and runSolhint have resolved and extractContractDetails has
\* returned; the call is made in a step that finds them so.
C22_SummaryAfterDetectors ==
  /\ [](\A c \in requests :
          Summarized(c) =>
            /\ Settled(slither[c])
            /\ Settled(solhint[c])
            /\ contractDetails[c] # None
            /\ finals[c] # None)
  /\ [][\A c \in requests :
          (~Summarized(c) /\ summary'[c] # None) =>
            /\ Settled(slither[c])
            /\ Settled(solhint[c])
            /\ contractDetails[c] # None
            /\ summary'[c].state = "pending"]_vars

\* The summarizer call is pending after slither reported a finding and solhint
\* ended in a timeout.
C22_Witness ==
  \E c \in requests :
    /\ Summarized(c)
    /\ summary[c].state = "pending"
    /\ slither[c].results # <<>>
    /\ solhint[c].error = "timeout"
    /\ contractDetails[c] # None

\* The words each rule of detectManualVulnerabilities looks for in the lowered
\* text, by the name of the diagnostic the rule contributes.
RuleWords ==
  [name \in {"Potential Reentrancy", "Unchecked External Call",
             "Potential Integer Overflow", "Dangerous Delegatecall", "tx.origin Usage",
             "Block Timestamp Dependency", "Potential Access Control Issue",
             "Self-Destruct Function"} |->
     CASE name = "Potential Reentrancy" -> {"call", "external", "reentrancyguard"}
       [] name = "Unchecked External Call" -> {"call", "require", "assert"}
       [] name = "Potential Integer Overflow" ->
            {"uint", "pragma solidity ^0.8", "pragma solidity 0.8"}
       [] name = "Dangerous Delegatecall" -> {"delegatecall"}
       [] name = "tx.origin Usage" -> {"tx.origin"}
       [] name = "Block Timestamp Dependency" -> {"block.timestamp"}
       [] name = "Potential Access Control Issue" ->
            {"function", "external", "modifier", "onlyowner"}
       [] name = "Self-Destruct Function" -> {"selfdestruct", "suicide"}]

\* The rule of this name contributed a diagnostic to the result.
Fired(name, result) ==
  /\ result # None
  /\ \E i \in DOMAIN result.vulnerabilities : result.vulnerabilities[i].name = JStr(name)

\* The word holds a word the rule looks for.
Concerns(word, name) == \E sought \in RuleWords[name] : includes(toLowerCase(word), sought)

\* C23: the result of detectManualVulnerabilities has at most eight entries, each
\* named by one of the eight rules, no two with the same name, each with line 1
\* and function "Multiple"; and whether a rule contributes depends on the words
\* that rule looks for alone: a word added to the text that holds none of them
\* leaves the rule as it was, whatever the word does to the other rules.
C23_RulesIndependent ==
  /\ [](found # None =>
          LET list == found.vulnerabilities
          IN /\ Len(list) <= 8
             /\ \A i \in DOMAIN list :
                  /\ list[i].name.t = "string"
                  /\ list[i].name.s \in DOMAIN RuleWords
                  /\ list[i].line = JNum(1)
                  /\ list[i].function = JStr("Multiple")
                  /\ \A j \in DOMAIN list : list[i].name = list[j].name => i = j)
  /\ [][\A name \in DOMAIN RuleWords :
          ~Concerns(draft'.pieces[Len(draft'.pieces)], name) =>
            (Fired(name, found') <=> Fired(name, found))]_vars

\* Three rules have contributed, and the last word made one more rule contribute
\* while the rules it does not concern stayed as they were.
C23_Witness ==
  /\ found # None
  /\ Len(found.vulnerabilities) >= 3
  /\ draft.pieces = <<"call", "EXTERNAL", "function">>
  /\ Fired("Potential Reentrancy", found)
  /\ Fired("Unchecked External Call", found)
  /\ Fired("Potential Access Control Issue", found)

\* The result of detectBasicLintingIssues has a diagnostic of this rule, of
\* severity warning in any letter case, at this line counted from 1.
Warned(rule, line) ==
  \E i \in DOMAIN found.issues :
    /\ found.issues[i].rule = JStr(rule)
    /\ found.issues[i].line = JNum(line)
    /\ toLowerCase(found.issues[i].severity.s) = "warning"

\* A line that is empty or holds white space only.
Blank(line) == \A q \in 1..Len(line) : CharAt(line, q) \in WhiteSpace

\* C24: detectBasicLintingIssues reports no-consecutive-blank-lines, with the line
\* number counted from 1, for every blank line that the next line, blank too,
\* follows; a blank line is an empty line or a line of white space only.
C24_ConsecutiveBlankLines ==
  found # None =>
    \A n \in 1..(Len(draft.pieces) - 1) :
      (Blank(draft.pieces[n]) /\ Blank(draft.pieces[n + 1])) =>
        Warned("no-consecutive-blank-lines", n)

\* C25: detectBasicLintingIssues reports max-line-length, with the line number
\* counted from 1, for every line of more than 120 columns, its indentation
\* counted, and for no line of 120 columns or fewer.
C25_MaxLineLength ==
  found # None =>
    \A n \in 1..Len(draft.pieces) :
      Warned("max-line-length", n) <=> Len(draft.pieces[n]) > MaxLineLength

\* The names of the functions the declarations declare internal.
InternalNames == {"helper", "audit"}

\* C26: the ABI generateManualABI returns has no function entry for a constructor
\* and none for a function declared internal, whatever the source text.
C26_NoConstructorNoInternal ==
  found # None =>
    \A i \in DOMAIN found.abi :
      found.abi[i].type = "function" =>
        found.abi[i].name \notin ({"constructor"} \cup InternalNames)

\* analyzeContract has gone past its writeFile (line 26).
PastWriteFile(c) == pc[c] \notin {"idle", "rejected", "writeFile"}

\* C27: when analyzeContract of a freshly constructed ContractAnalyzer writes
\* contract.sol, the ensureTempDir() its constructor started has completed, so the
\* write never fails for want of the directory.
C27_DirBeforeWrite ==
  \A c \in requests :
    PastWriteFile(c) => (ensureDir[c] = "done" /\ failure[c] # "ENOENT")

\* C28: when the summarizer is called, the security list and the style list it is
\* handed are the lists the record carries as bugs and linting, that is the lists
\* after the fallback substitution.
C28_SummaryGetsFinalLists ==
  \A c \in requests :
    (Summarized(c) /\ HasRecord(c)) =>
      /\ summary[c].request.slitherResults = analysis[c].bugs
      /\ summary[c].request.solhintResults = analysis[c].linting

\* A fallback list took the place of an empty external list of the request.
Replaced(c) ==
  \/ (slither[c].results = <<>> /\ analysis[c].bugs # <<>>)
  \/ (solhint[c].results = <<>> /\ analysis[c].linting # <<>>)

\* C29: in every record, riskScore is computeRiskScore of the record's own bugs and
\* linting, auditGrade is computeAuditGrade of that riskScore and those lists, and
\* deploymentWarnings is generateDeploymentWarnings of those lists: the lists after
\* the fallback, not the external results a fallback replaced.
C29_RecordDerivedFromOwnLists ==
  \A c \in requests :
    HasRecord(c) =>
      /\ computeRiskScore(analysis[c].bugs, analysis[c].linting)
           = Return(analysis[c].riskScore)
      /\ computeAuditGrade(analysis[c].riskScore, analysis[c].bugs, analysis[c].linting)
           = Return(analysis[c].auditGrade)
      /\ generateDeploymentWarnings(analysis[c].bugs, analysis[c].linting)
           = Return(analysis[c].deploymentWarnings)

\* A record whose security list is the fallback's and whose score, grade and
\* warnings are not those of the empty external list.
C29_Witness ==
  \E c \in requests :
    /\ HasRecord(c)
    /\ Replaced(c)
    /\ slither[c].results = <<>>
    /\ Return(analysis[c].riskScore) # computeRiskScore(<<>>, solhint[c].results)
    /\ Return(analysis[c].deploymentWarnings)
         # generateDeploymentWarnings(<<>>, solhint[c].results)
    /\ analysis[c].auditGrade # "A"

\* computeRiskScore counts the diagnostic as High: 25 points.
ScoredHigh(bug) == LoweredSeverity(bug) = Return("high")

\* The name of the diagnostic holds one of the three words in some letter case.
NamedCritical(bug) ==
  \E word \in {"reentrancy", "overflow", "access-control"} :
    LET name == LoweredName(bug) IN ~name.threw /\ includes(name.value, word)

\* The record's deployment warnings hold a warning with this ending.
WarnedOf(c, ending) ==
  \E i \in DOMAIN analysis[c].deploymentWarnings :
    endsWith(analysis[c].deploymentWarnings[i], ending)

\* C30: the deployment warnings agree with the scoring: the high-severity warning
\* is there whenever a security diagnostic is scored as High by computeRiskScore,
\* and the critical-vulnerability warning is there whenever the name of a security
\* diagnostic holds reentrancy, overflow or access-control in any letter case.
C30_WarningsAgreeWithScoring ==
  \A c \in requests :
    HasRecord(c) =>
      /\ (\E i \in DOMAIN analysis[c].bugs : ScoredHigh(analysis[c].bugs[i])) =>
           WarnedOf(c, "high severity issues found")
      /\ (\E i \in DOMAIN analysis[c].bugs : NamedCritical(analysis[c].bugs[i])) =>
           WarnedOf(c, CriticalWarning)

====
